---------------------------- MODULE Spec2Model ----------------------------
(***************************************************************************)
(* A model of the OOM event detection pipeline of oom-notifier:           *)
(*   - KmsgReader      (internal/monitor/kmsg.go): the background         *)
(*     readLoop, the bounded entry channel, ReadEntries, the line parser  *)
(*     and the OOM classifier;                                            *)
(*   - ProcessCache    (internal/monitor/process.go): the LRU mapping     *)
(*     from PID to command line, Refresh and GetCommandLine;              *)
(*   - OOMMonitor      (internal/monitor/kmsg.go): the detection loop of  *)
(*     Start, the cache refresh loop and createOOMEvent;                  *)
(*   - main            (cmd/oom-notifier/main.go): the event loop that    *)
(*     receives events and calls the notifier, and the shutdown signal.   *)
(*                                                                         *)
(* Text is modelled as a sequence of one-character strings, so that the   *)
(* parser and the classifier are computed on the characters of a line.    *)
(***************************************************************************)
EXTENDS Integers, Sequences, FiniteSets, TLC

(***************************************************************************)
(* Bounds of the model.                                                    *)
(***************************************************************************)
\* Number of lines the kernel stream delivers in one behaviour of the
\* detection pipeline.
MaxLines == 2
\* Number of lines the stream delivers in one behaviour of the reader.
MaxReaderLines == 4
\* Number of lines the stream delivers in one behaviour of a burst of kills.
MaxBurstLines == 3
\* Number of lines the stream delivers in one behaviour of timed kills.
MaxTimedLines == 2
\* Number of lines the stream delivers in one behaviour of the parser.
MaxParsedLines == 1
\* Number of lines the stream delivers in one behaviour of cased messages.
MaxCasedLines == 2
\* Number of lines the stream delivers and of periodic Refresh calls in one
\* behaviour that begins with the construction.
MaxBootLines == 1
MaxBootRefresh == 1
\* Number of lines the stream delivers in a behaviour with the shutdown.
MaxShutdownLines == 2
\* Capacity of the entry channel (make(chan KmsgEntry, 100)), scaled down.
QueueCap == 2
\* Capacity of the event channel (make(chan OOMEventData, 10)), scaled down.
EventCap == 1
\* Capacity of the LRU cache (pid_max), scaled down.
CacheCap == 2
\* Number of Refresh calls and of lookups in one behaviour of the cache alone.
MaxCacheOps == 3
\* Number of Refresh calls and of lookups on the cache sized to pid_max.
MaxSizedOps == 3
\* Number of lines and of Refresh calls in a behaviour over process
\* directories whose files are empty, blank or unreadable.
MaxStoredLines == 1
MaxStoredOps == 1
\* Number of entries of a batch that are followed on a stream without end.
MaxEndlessBatch == 3
\* Number of lines the stream delivers in a behaviour where posts to Slack
\* may fail.
MaxNotifiedLines == 2
\* Number of lines the stream delivers in a behaviour where the reader is
\* closed.
MaxClosedLines == 4
\* Number of Refresh calls and of lookups made during them.
MaxLockedOps == 2
\* Number of lines of a stream of OOM lines with and without a usable PID.
MaxExtractLines == 2
\* Number of lines and of Refresh calls in a behaviour whose first Refresh
\* fails.
MaxIsolatedLines == 2
MaxIsolatedRefresh == 2

(***************************************************************************)
(* Characters and strings.                                                 *)
(***************************************************************************)
UpperChars == <<"A","B","C","D","E","F","G","H","I","J","K","L","M","N","O","P","Q","R","S","T","U","V","W","X","Y","Z">>
LowerChars == <<"a","b","c","d","e","f","g","h","i","j","k","l","m","n","o","p","q","r","s","t","u","v","w","x","y","z">>
DigitChars == <<"0","1","2","3","4","5","6","7","8","9">>

Range(s) == {s[i] : i \in 1..Len(s)}

IsDigit(c) == c \in Range(DigitChars)

\* The regexp class \w of the \b assertion: [0-9A-Za-z_].
IsWordChar(c) == c \in Range(DigitChars) \cup Range(UpperChars) \cup Range(LowerChars) \cup {"_"}

DigitVal(c) == (CHOOSE i \in 1..10 : DigitChars[i] = c) - 1

ToLowerChar(c) ==
    IF c \in Range(UpperChars)
    THEN LowerChars[CHOOSE i \in 1..26 : UpperChars[i] = c]
    ELSE c

\* A ToLower that leaves the letters as they are.
KeepCase(s) == s

\* strings.ToLower
RECURSIVE ToLower(_)
ToLower(s) == IF s = <<>> THEN <<>> ELSE <<ToLowerChar(Head(s))>> \o ToLower(Tail(s))

\* s[i..] starts with p
HasPrefixAt(s, i, p) ==
    /\ i + Len(p) - 1 <= Len(s)
    /\ \A j \in 1..Len(p) : s[i + j - 1] = p[j]

\* strings.Index: the first position of character c in s, 0 when absent.
RECURSIVE IndexFrom(_, _, _)
IndexFrom(s, c, i) ==
    IF i > Len(s) THEN 0
    ELSE IF s[i] = c THEN i
    ELSE IndexFrom(s, c, i + 1)

IndexOf(s, c) == IndexFrom(s, c, 1)

\* strings.Split(s, sep) for a one-character separator.
RECURSIVE Split(_, _)
Split(s, sep) ==
    LET i == IndexOf(s, sep) IN
    IF i = 0 THEN <<s>>
    ELSE <<SubSeq(s, 1, i - 1)>> \o Split(SubSeq(s, i + 1, Len(s)), sep)

\* The last position of character c in s, 0 when absent.
RECURSIVE LastIndexFrom(_, _, _)
LastIndexFrom(s, c, i) ==
    IF i < 1 THEN 0
    ELSE IF s[i] = c THEN i
    ELSE LastIndexFrom(s, c, i - 1)

\* A split in two at the last separator.
SplitAtLast(s, sep) ==
    LET i == LastIndexFrom(s, sep, Len(s)) IN
    IF i = 0 THEN <<s>>
    ELSE <<SubSeq(s, 1, i - 1), SubSeq(s, i + 1, Len(s))>>

\* strings.SplitN(s, sep, 2): split at the first separator only.
SplitN2(s, sep) ==
    LET i == IndexOf(s, sep) IN
    IF i = 0 THEN <<s>>
    ELSE <<SubSeq(s, 1, i - 1), SubSeq(s, i + 1, Len(s))>>

AllDigits(s) == Len(s) > 0 /\ \A i \in 1..Len(s) : IsDigit(s[i])

RECURSIVE StripZeros(_)
StripZeros(s) ==
    IF Len(s) > 1 /\ s[1] = "0" THEN StripZeros(Tail(s)) ELSE s

\* Lexicographic a <= b for digit strings of the same length.
RECURSIVE DigitsLeq(_, _)
DigitsLeq(a, b) ==
    IF Len(a) = 0 THEN TRUE
    ELSE IF DigitVal(a[1]) < DigitVal(b[1]) THEN TRUE
    ELSE IF DigitVal(a[1]) > DigitVal(b[1]) THEN FALSE
    ELSE DigitsLeq(Tail(a), Tail(b))

\* The digit string s denotes a number <= the number denoted by max.
FitsIn(s, max) ==
    LET z == StripZeros(s) IN
    \/ Len(z) < Len(max)
    \/ Len(z) = Len(max) /\ DigitsLeq(z, max)

\* 2^64 - 1 and 2^63 - 1 and 2^63 in decimal: the ranges of uint64 and int64.
MaxUint64Digits == <<"1","8","4","4","6","7","4","4","0","7","3","7","0","9","5","5","1","6","1","5">>
MaxInt64Digits == <<"9","2","2","3","3","7","2","0","3","6","8","5","4","7","7","5","8","0","7">>
MinInt64Digits == <<"9","2","2","3","3","7","2","0","3","6","8","5","4","7","7","5","8","0","8">>

\* The value of a digit string. The lines of the model carry numbers of at
\* most nine digits, or numbers beyond 64 bits, which the parsers reject
\* before the value is computed.
RECURSIVE DecValue(_)
DecValue(s) ==
    IF Len(s) = 0 THEN 0
    ELSE 10 * DecValue(SubSeq(s, 1, Len(s) - 1)) + DigitVal(s[Len(s)])

\* strconv.Itoa for n >= 0.
RECURSIVE Itoa(_)
Itoa(n) ==
    IF n < 10 THEN <<DigitChars[n + 1]>>
    ELSE Itoa(n \div 10) \o <<DigitChars[(n % 10) + 1]>>

ParseErr == [ok |-> FALSE, val |-> 0]
ParseOk(v) == [ok |-> TRUE, val |-> v]

\* strconv.ParseUint(s, 10, 64): digits only, no sign, within uint64.
ParseUint(s) ==
    IF AllDigits(s) /\ FitsIn(s, MaxUint64Digits) THEN ParseOk(DecValue(s)) ELSE ParseErr

\* strconv.Atoi(s): an optional sign, then digits, within int64.
Atoi(s) ==
    IF Len(s) > 0 /\ s[1] = "-"
    THEN IF AllDigits(Tail(s)) /\ FitsIn(Tail(s), MinInt64Digits)
         THEN ParseOk(0 - DecValue(Tail(s))) ELSE ParseErr
    ELSE IF Len(s) > 0 /\ s[1] = "+"
    THEN IF AllDigits(Tail(s)) /\ FitsIn(Tail(s), MaxInt64Digits)
         THEN ParseOk(DecValue(Tail(s))) ELSE ParseErr
    ELSE IF AllDigits(s) /\ FitsIn(s, MaxInt64Digits)
         THEN ParseOk(DecValue(s)) ELSE ParseErr

(***************************************************************************)
(* KmsgReader: the parser and the classifier.                              *)
(***************************************************************************)
NoEntry == [ok |-> FALSE]

\* KmsgReader.parseKmsgLine
parseKmsgLine(line) ==
    LET parts == SplitN2(line, ";") IN
    IF Len(parts) # 2 THEN NoEntry
    ELSE
    LET metadata == Split(parts[1], ",") IN
    IF Len(metadata) < 3 THEN NoEntry
    ELSE
    LET priority == Atoi(metadata[1])
        sequence == ParseUint(metadata[2])
        timestampStr == Split(metadata[3], ",")[1]
        timestamp == ParseUint(timestampStr)
    IN  IF ~priority.ok \/ ~sequence.ok \/ ~timestamp.ok THEN NoEntry
        ELSE [ok |-> TRUE,
              Priority |-> priority.val,
              SequenceNum |-> sequence.val,
              Timestamp |-> timestamp.val,
              Message |-> parts[2]]

\* The entry value sent on the channel (*entry): the four fields of KmsgEntry.
EntryOf(p) ==
    [Priority |-> p.Priority, SequenceNum |-> p.SequenceNum,
     Timestamp |-> p.Timestamp, Message |-> p.Message]

\* regexp (?i)out of memory:
OomPattern == <<"o","u","t"," ","o","f"," ","m","e","m","o","r","y",":">>
\* the literal part of regexp \bkilled process (\d+)\b
PidPrefix == <<"k","i","l","l","e","d"," ","p","r","o","c","e","s","s"," ">>

\* The pattern (?i)out of memory: matches s at position i.
OomMatchAt(s, i) ==
    /\ i + Len(OomPattern) - 1 <= Len(s)
    /\ \A j \in 1..Len(OomPattern) : ToLowerChar(s[i + j - 1]) = OomPattern[j]

\* KmsgReader.IsOOMMessage: an unanchored, case-insensitive match.
IsOOMMessage(entry) ==
    \E i \in 1..Len(entry.Message) : OomMatchAt(entry.Message, i)

\* The end of the digit run of s that starts at position i (i - 1 when s[i]
\* is no digit).
RECURSIVE DigitRunEnd(_, _)
DigitRunEnd(s, i) ==
    IF i <= Len(s) /\ IsDigit(s[i]) THEN DigitRunEnd(s, i + 1) ELSE i - 1

\* \bkilled process (\d+)\b matches s at position i: a word boundary before
\* the k, the literal, a digit run, and a word boundary after the run. The
\* run is all-or-nothing: a shorter run would end between two digits, which
\* is no word boundary.
PidMatchAt(s, i) ==
    /\ HasPrefixAt(s, i, PidPrefix)
    /\ (i = 1 \/ ~IsWordChar(s[i - 1]))
    /\ LET d == i + Len(PidPrefix)
           e == DigitRunEnd(s, d)
       IN  /\ e >= d
           /\ (e = Len(s) \/ ~IsWordChar(s[e + 1]))

\* The position of the leftmost match at or after i, 0 when there is none.
RECURSIVE FirstPidMatch(_, _)
FirstPidMatch(s, i) ==
    IF i > Len(s) THEN 0
    ELSE IF PidMatchAt(s, i) THEN i
    ELSE FirstPidMatch(s, i + 1)

\* KmsgReader.ExtractPID: the leftmost match on the lowered message, its
\* digits through strconv.Atoi.
ExtractPID(message) ==
    LET s == ToLower(message)
        i == FirstPidMatch(s, 1)
        d == i + Len(PidPrefix)
    IN  IF i = 0 THEN ParseErr ELSE Atoi(SubSeq(s, d, DigitRunEnd(s, d)))

(***************************************************************************)
(* The kernel stream: the lines /dev/kmsg can deliver.                     *)
(***************************************************************************)
\* A record as the kernel prints it: "prio,seq,ts,-;message".
KernelLine(prio, seq, ts, msg) ==
    Itoa(prio) \o <<",">> \o Itoa(seq) \o <<",">> \o Itoa(ts) \o <<",", "-", ";">> \o msg

\* "Out of memory: Killed process <pid>"
OomKillMsg(pid) ==
    <<"O","u","t"," ","o","f"," ","m","e","m","o","r","y",":"," ","K","i","l","l","e","d"," ","p","r","o","c","e","s","s"," ">> \o Itoa(pid)
\* An OOM line of an older kernel, which names no killed process.
OomNoPidMsg == <<"O","u","t"," ","o","f"," ","m","e","m","o","r","y",":"," ","K","i","l","l"," ","p","r","o","c","e","s","s"," ","1">>
\* A line that is no OOM kill although it names a killed process.
NotOomMsg == <<"K","i","l","l","e","d"," ","p","r","o","c","e","s","s"," ","1">>
\* A continuation line of a record: no ';', so it does not parse.
ContinuationLine == <<" ","K","=","v">>

\* The kernel timestamps (microseconds since boot) the records carry.
Timestamps == {1, 2, 3}

\* The lines the stream can deliver as its n-th line: the kernel numbers its
\* records, so the sequence number of the n-th line is n.
StreamLines(n) ==
    {ContinuationLine}
    \cup {KernelLine(6, n, 2, NotOomMsg), KernelLine(3, n, 2, OomNoPidMsg)}
    \cup {KernelLine(3, n, ts, OomKillMsg(1)) : ts \in Timestamps}
    \cup {KernelLine(3, n, 3, OomKillMsg(10))}

\* An OOM kill line whose PID is a digit run beyond the int range.
OomHugePidMsg ==
    <<"O","u","t"," ","o","f"," ","m","e","m","o","r","y",":"," ","K","i","l","l","e","d"," ","p","r","o","c","e","s","s"," ">>
        \o <<"9","2","2","3","3","7","2","0","3","6","8","5","4","7","7","5","8","0","8">>

\* The lines of a stream of OOM lines at the baseline: a kill of PID 1, one
\* that names no killed process and one whose PID does not fit.
ExtractLines(n) ==
    {KernelLine(3, n, 2, OomKillMsg(1)), KernelLine(3, n, 2, OomNoPidMsg),
     KernelLine(3, n, 2, OomHugePidMsg)}

\* The lines of a stream in a burst of OOM kills, all after the baseline.
BurstLines(n) ==
    {KernelLine(6, n, 2, NotOomMsg), KernelLine(3, n, 2, OomKillMsg(1)),
     KernelLine(3, n, 3, OomKillMsg(10))}

\* The lines of a stream of OOM kills stamped below and above a millisecond.
KillTimes == {1, 999, 1000, 2500}
TimedLines(n) == {KernelLine(3, n, ts, OomKillMsg(1)) : ts \in KillTimes}

\* Well-formed lines "<p>,<seq>,<ts>[,extra...];<msg>", from their parts:
\* the numbers with their decimal text, the extra fields and the message.
Decimal ==
    (0 :> <<"0">>) @@ (3 :> <<"3">>) @@ (6 :> <<"6">>) @@ (42 :> <<"4", "2">>)
        @@ (2500 :> <<"2", "5", "0", "0">>)
LinePrios == {3, 6}
LineSeqs == {42}
LineTimes == {0, 2500}
LineExtras == {<<>>, <<",", "-">>, <<",", "c", ",", "x">>}
LineMsgs == {<<>>, <<"m">>, <<"a", ";", "b", ",", "c">>}
WellFormedLine(p, seq, ts, extra, msg) ==
    Decimal[p] \o <<",">> \o Decimal[seq] \o <<",">> \o Decimal[ts] \o extra \o <<";">> \o msg
WellFormedLines ==
    {WellFormedLine(p, seq, ts, extra, msg) :
        p \in LinePrios, seq \in LineSeqs, ts \in LineTimes, extra \in LineExtras, msg \in LineMsgs}

\* Lines without ';', and lines with fewer than three fields before it.
MalformedLines ==
    { <<>>, <<"m">>, <<"3", ",", "1", ",", "2">>, <<"3", ",", "1", ",", "2", ",", "-">>,
      <<";", "m">>, <<"3", ";", "m">>, <<"3", ",", "1", ";", "m">>,
      <<"3", ",", "1", ";", "a", ",", "b", ",", "c">>, ContinuationLine }

\* Messages in several letter-casings, each with what it is: whether it
\* contains "out of memory:" in some casing, and the PID after "killed
\* process" in some casing (0: there is none).
Cased(text, oom, pid) == [text |-> text, oom |-> oom, pid |-> pid]
CasedMsgs ==
    { Cased(<<"O", "u", "t", " ", "O", "f", " ", "M", "e", "m", "o", "r", "y", ":", " ", "k", "i", "l", "l", "e", "d", " ", "p", "r", "o", "c", "e", "s", "s", " ", "1", "2", "3", "4", " ", "(", "f", "o", "o", ")">>, TRUE, 1234),
      Cased(<<"O", "U", "T", " ", "O", "F", " ", "M", "E", "M", "O", "R", "Y", ":", " ", "K", "i", "l", "l", "e", "d", " ", "P", "r", "o", "c", "e", "s", "s", " ", "1", "2", "3", "4", " ", "(", "f", "o", "o", ")">>, TRUE, 1234),
      Cased(<<"x", " ", "o", "U", "T", " ", "o", "F", " ", "m", "E", "M", "O", "R", "Y", ":", " ", "K", "I", "L", "L", "E", "D", " ", "P", "R", "O", "C", "E", "S", "S", " ", "1", "2", "3", "4">>, TRUE, 1234),
      Cased(<<"O", "u", "t", " ", "o", "f", " ", "m", "e", "m", "o", "r", "y", " ", "k", "i", "l", "l", "e", "d", " ", "p", "r", "o", "c", "e", "s", "s", " ", "1", "2", "3", "4">>, FALSE, 1234),
      Cased(<<"O", "U", "T", " ", "O", "F", " ", "M", "E", "M", "O", "R", "Y", ":", " ", "n", "o", " ", "k", "i", "l", "l">>, TRUE, 0) }
CasedLines(n) == {KernelLine(3, n, 2, c.text) : c \in CasedMsgs}

\* The lines of a stream that reports no OOM kill.
QuietLines(n) == {ContinuationLine, KernelLine(6, n, 2, NotOomMsg)}

(***************************************************************************)
(* The process table (procDir) and ProcessCache.                           *)
(***************************************************************************)
PIDs == {1, 2, 10}

\* A file that cannot be read.
ReadErr == <<"!">>

\* In the files /proc/<pid>/cmdline and /proc/<pid>/comm, "NUL" is the byte
\* 0 and "LF" a newline.

IsSpace(c) == c \in {" ", "LF", "TAB"}

\* strings.ReplaceAll(s, "\x00", " ")
ReplaceNul(s) == [i \in 1..Len(s) |-> IF s[i] = "NUL" THEN " " ELSE s[i]]

\* strings.TrimSpace
RECURSIVE TrimLeft(_)
TrimLeft(s) == IF Len(s) > 0 /\ IsSpace(s[1]) THEN TrimLeft(Tail(s)) ELSE s
RECURSIVE TrimRight(_)
TrimRight(s) ==
    IF Len(s) > 0 /\ IsSpace(s[Len(s)]) THEN TrimRight(SubSeq(s, 1, Len(s) - 1)) ELSE s
TrimSpace(s) == TrimRight(TrimLeft(s))

\* getProcessCmdline, given the two files of the PID's directory.
getProcessCmdline(files) ==
    IF files.cmdline = ReadErr THEN <<>>
    ELSE LET cmdline == TrimSpace(ReplaceNul(files.cmdline)) IN
         IF cmdline # <<>> THEN cmdline
         ELSE IF files.comm # ReadErr
              THEN <<"[">> \o TrimSpace(files.comm) \o <<"]">>
              ELSE cmdline

\* Lexicographic order of two directory names.
RECURSIVE NameLess(_, _)
NameLess(a, b) ==
    IF Len(b) = 0 THEN FALSE
    ELSE IF Len(a) = 0 THEN TRUE
    ELSE IF a[1] # b[1] THEN DigitVal(a[1]) < DigitVal(b[1])
    ELSE NameLess(Tail(a), Tail(b))

\* os.ReadDir returns the entries sorted by file name.
RECURSIVE ReadDir(_)
ReadDir(pids) ==
    IF pids = {} THEN <<>>
    ELSE LET first == CHOOSE p \in pids :
                        \A q \in pids \ {p} : NameLess(Itoa(p), Itoa(q))
         IN  <<first>> \o ReadDir(pids \ {first})

\* getAllProcesses over a listable procDir: table maps each PID directory
\* to its files; a PID with no command line is left out.
\* A sweep that gives up at the first PID without a command line.
RECURSIVE CollectProcessesUntilError(_, _)
CollectProcessesUntilError(table, names) ==
    IF names = <<>> THEN <<>>
    ELSE LET pid == Head(names)
             cmdline == getProcessCmdline(table[pid])
         IN  IF cmdline # <<>>
             THEN <<[PID |-> pid, Cmdline |-> cmdline]>>
                  \o CollectProcessesUntilError(table, Tail(names))
             ELSE <<>>

\* A sweep that keeps every PID directory, with or without a command line.
RECURSIVE CollectProcessesUnfiltered(_, _)
CollectProcessesUnfiltered(table, names) ==
    IF names = <<>> THEN <<>>
    ELSE LET pid == Head(names)
             cmdline == getProcessCmdline(table[pid])
         IN  <<[PID |-> pid, Cmdline |-> cmdline]>>
             \o CollectProcessesUnfiltered(table, Tail(names))

RECURSIVE CollectProcesses(_, _)
CollectProcesses(table, names) ==
    IF names = <<>> THEN <<>>
    ELSE LET pid == Head(names)
             cmdline == getProcessCmdline(table[pid])
         IN  (IF cmdline # <<>> THEN <<[PID |-> pid, Cmdline |-> cmdline]>> ELSE <<>>)
             \o CollectProcesses(table, Tail(names))

getAllProcesses(table) == CollectProcesses(table, ReadDir(DOMAIN table))

\* OOMMonitor.Close was not called yet.
NoCloseCall ==
    [called |-> FALSE, pending |-> {}, sent |-> 0, enqueued |-> 0, queue |-> <<>>,
     rlPc |-> "off"]

\* No periodic Refresh call was made yet.
NoRefreshCall == [listed |-> FALSE, table |-> <<>>, result |-> "none"]

\* The LRU cache is a list of [key, value], most recently used first.
LruContains(c, k) == \E i \in 1..Len(c) : c[i].key = k
LruIndex(c, k) == CHOOSE i \in 1..Len(c) : c[i].key = k
LruRemoveAt(c, i) == SubSeq(c, 1, i - 1) \o SubSeq(c, i + 1, Len(c))

\* An Add that moves an existing key to the front with the value it had
\* (first writer wins).
LruAddKeepingValue(c, k, v) ==
    IF LruContains(c, k)
    THEN <<c[LruIndex(c, k)]>> \o LruRemoveAt(c, LruIndex(c, k))
    ELSE LET grown == <<[key |-> k, value |-> v]>> \o c IN
         IF Len(grown) > CacheCap THEN SubSeq(grown, 1, Len(grown) - 1) ELSE grown

\* An Add that keeps one slot free: the oldest entry goes when the cache
\* reaches its capacity.
LruAddTight(c, k, v) ==
    IF LruContains(c, k)
    THEN <<[key |-> k, value |-> v]>> \o LruRemoveAt(c, LruIndex(c, k))
    ELSE LET grown == <<[key |-> k, value |-> v]>> \o c IN
         IF Len(grown) >= CacheCap THEN SubSeq(grown, 1, Len(grown) - 1) ELSE grown

\* An Add that updates an existing key where it is, without moving it.
LruAddInPlace(c, k, v) ==
    IF LruContains(c, k)
    THEN [c EXCEPT ![LruIndex(c, k)] = [key |-> k, value |-> v]]
    ELSE LET grown == <<[key |-> k, value |-> v]>> \o c IN
         IF Len(grown) > CacheCap THEN SubSeq(grown, 1, Len(grown) - 1) ELSE grown

\* lru.Cache.Add: an existing key is updated and moved to the front; a new
\* key is put in front and, beyond the capacity, the oldest entry goes.
LruAdd(c, k, v) ==
    IF LruContains(c, k)
    THEN <<[key |-> k, value |-> v]>> \o LruRemoveAt(c, LruIndex(c, k))
    ELSE LET grown == <<[key |-> k, value |-> v]>> \o c IN
         IF Len(grown) > CacheCap THEN SubSeq(grown, 1, Len(grown) - 1) ELSE grown

\* lru.Cache.Get: the cache after the lookup (a hit moves the key to the front).
LruTouch(c, k) ==
    IF LruContains(c, k)
    THEN <<c[LruIndex(c, k)]>> \o LruRemoveAt(c, LruIndex(c, k))
    ELSE c

\* ProcessCache.GetCommandLine: the returned command line, "" when absent.
GetCommandLine(c, pid) ==
    IF LruContains(c, pid) THEN c[LruIndex(c, pid)].value ELSE <<>>

\* The insertion loop of ProcessCache.Refresh, as one function.
RECURSIVE AddAll(_, _)
AddAll(c, procs) ==
    IF procs = <<>> THEN c
    ELSE AddAll(LruAdd(c, Head(procs).PID, Head(procs).Cmdline), Tail(procs))

(***************************************************************************)
(* The state of the program.                                               *)
(***************************************************************************)
VARIABLES
    \* KmsgReader
    entryBuffer,      \* the channel k.entryBuffer: queued entries, oldest first
    done,             \* k.done is closed
    scanEnded,        \* the bufio.Scanner has returned false: it reads no more
    rlPc,             \* readLoop: "off" before NewKmsgReader, then
                      \* "select", "scan", "push" or "stopped"
    rlEntry,          \* readLoop: the parsed entry it is pushing
    \* OOMMonitor
    clk,              \* what construction read: /proc/stat and the clock
    checkInterval,    \* m.checkInterval, in seconds
    refreshInterval,  \* m.refreshInterval, in seconds
    startupTimestamp, \* m.startupTimestamp
    bootTime,         \* m.bootTime, in microseconds since the epoch
    stPc,             \* Start: "off" before it is called, "begin", then
                      \* "tick", "drain", "process" or "send"
    entries,          \* ReadEntries' result being built, then Start's batch
    idx,              \* Start: the index in entries of the entry in hand
    event,            \* Start: the event it is sending
    \* ProcessCache and refreshProcessCache
    cache,            \* the LRU list, most recently used first
    muHeld,           \* pc.mu is held by Refresh (exclusive)
    rfPc,             \* refreshProcessCache: "off", "begin", then
                      \* Refresh: "tick", "scan" (where getAllProcesses is
                      \* followed step by step), "lock" or "insert"
    rfProcs,          \* Refresh: the processes still to insert
    nRefresh,         \* Refresh calls made so far
    refreshCall,      \* the running or last periodic Refresh call: whether
                      \* procDir could be listed, the process table it
                      \* listed (until the lock is taken), and its result:
                      \* "none", "running", "error" or "nil"
    \* main
    eventChan,        \* the channel eventChan
    mainPc,           \* main: in NewOOMMonitor "new", "cache", "clock";
                      \* then "start", "select", "notify", "closing",
                      \* "closed"; at the end "exited" (main returned),
                      \* "exit1" (os.Exit(1)) or "crashed" (a panic)
    mainEvent,        \* main: the event received from eventChan
    \* The cache used alone
    lookups,          \* the number of GetCommandLine calls made
    lastLookup,       \* the last of them: [pid, result, evicted], evicted
                      \* when the PID had been in the cache and was no more
    \* History, for stating the properties
    recency,          \* every PID the cache has held, last used first
    scanned,          \* every line Scan has returned, in order
    enqueued,         \* the sequence number of every entry pushed, in order
    drained,          \* the sequence number of every entry returned by
                      \* ReadEntries, in order
    sent,             \* every event put on eventChan, with the sequence
                      \* number of its entry, in order
    notified,         \* every event handed to Notify, in order
    notifyLog,        \* what main logged after each Notify call, in order:
                      \* "error" for a failure, "nil" for a success
    closeCall,        \* the OOMMonitor.Close call: whether it was made, the
                      \* sequence numbers of the entries of the batch that
                      \* Start had not finished with, the number of events
                      \* sent and of entries enqueued so far, the sequence
                      \* numbers in the queue, and where readLoop was
    call              \* the running or last ReadEntries call: the queue when
                      \* it began, whether the reader pushed during it, and
                      \* once it returned its result, its error and the
                      \* queue it left

readerVars == <<entryBuffer, done, scanEnded, rlPc, rlEntry>>
startVars == <<stPc, entries, idx, event>>
clockVars == <<clk, checkInterval, refreshInterval, startupTimestamp, bootTime>>
cacheVars == <<cache, muHeld, rfPc, rfProcs, nRefresh, refreshCall, recency>>
mainVars == <<eventChan, mainPc, mainEvent>>
histVars == <<scanned, enqueued, drained, sent, notified, call>>
lookupVars == <<lookups, lastLookup>>
callVars == <<closeCall, notifyLog>>
vars == <<readerVars, startVars, clockVars, cacheVars, mainVars, lookupVars, callVars, histVars>>

\* The recency list r after a use of pid: pid comes first.
Used(r, pid) == <<pid>> \o SelectSeq(r, LAMBDA q : q # pid)

\* The recency list after the processes procs were inserted in order.
RECURSIVE UsedAll(_, _)
UsedAll(r, procs) ==
    IF procs = <<>> THEN r ELSE UsedAll(Used(r, Head(procs).PID), Tail(procs))

\* The sequence numbers of a sequence of entries.
SeqNums(es) == [i \in 1..Len(es) |-> es[i].SequenceNum]

NoEvent == [Cmdline |-> <<>>, PID |-> <<>>, Hostname |-> <<>>, Kernel |-> <<>>, Time |-> 0]
NoKmsgEntry == [Priority |-> 0, SequenceNum |-> 0, Timestamp |-> 0, Message |-> <<>>]

(***************************************************************************)
(* Construction: NewOOMMonitor.                                            *)
(***************************************************************************)
\* uint64(x) wraps modulo 2^64. TLC's integers have 32 bits, so 2^30 stands
\* for 2^64: every other number of the model is far below it.
Uint64Wrap == 2^30
Uint64(x) == x % Uint64Wrap

\* strings.Fields: the maximal runs of non-space characters of s.
RECURSIVE SpaceFrom(_, _)
SpaceFrom(s, i) ==
    IF i > Len(s) THEN Len(s) + 1
    ELSE IF IsSpace(s[i]) THEN i
    ELSE SpaceFrom(s, i + 1)
RECURSIVE Fields(_)
Fields(s) ==
    LET t == TrimLeft(s) IN
    IF t = <<>> THEN <<>>
    ELSE LET e == SpaceFrom(t, 1) IN
         <<SubSeq(t, 1, e - 1)>> \o Fields(SubSeq(t, e, Len(t)))

\* strconv.ParseInt(s, 10, 64), which is what Atoi does on 64 bits.
ParseInt(s) == Atoi(s)

\* The contents /proc/stat can have: a boot time of 1 s, one of 2 s, no
\* btime line, a btime that is no number, a btime line without a value.
StatBoot1 == <<"c","p","u"," ","0","LF","b","t","i","m","e"," ","1","LF">>
StatBoot2 == <<"b","t","i","m","e"," ","2","LF">>
StatNoBtime == <<"c","p","u"," ","0","LF">>
StatBadValue == <<"b","t","i","m","e"," ","x","LF">>
StatNoValue == <<"b","t","i","m","e"," ","LF","c","p","u"," ","0","LF">>

\* getBootTime: the loop over the lines of /proc/stat from line i on. The
\* first line that starts with "btime " and has two fields decides.
RECURSIVE BootLine(_, _)
BootLine(lines, i) ==
    IF i > Len(lines) THEN ParseErr
    ELSE IF HasPrefixAt(lines[i], 1, <<"b","t","i","m","e"," ">>) /\ Len(Fields(lines[i])) >= 2
    THEN ParseInt(Fields(lines[i])[2])
    ELSE BootLine(lines, i + 1)

\* getBootTime: the boot time in seconds, or an error.
getBootTime(stat) ==
    IF stat = ReadErr THEN ParseErr ELSE BootLine(Split(stat, "LF"), 1)

\* What construction reads from its environment: stat is /proc/stat, now0
\* the time.Now() of the fallback and now1 the clock when time.Since is
\* evaluated, in microseconds.
Clock(stat, now0, now1) == [stat |-> stat, now0 |-> now0, now1 |-> now1]
PipelineClocks ==
    { Clock(StatBoot1, 1000002, 1000002),
      Clock(ReadErr, 1000002, 1000003),
      Clock(StatBoot2, 1000002, 1000002) }
\* A boot time of whole seconds, and fallbacks to a time.Now() that is
\* 2 and 999 microseconds past a whole millisecond.
TimeClocks ==
    { Clock(StatBoot1, 1000002, 1000002),
      Clock(ReadErr, 1000002, 1000003),
      Clock(ReadErr, 1000999, 1001000) }
Clocks ==
    PipelineClocks \cup TimeClocks
    \cup { Clock(StatNoBtime, 1000002, 1000003),
           Clock(StatBadValue, 1000002, 1000003),
           Clock(StatNoValue, 1000002, 1000003) }

\* getBootTime in microseconds, with the Unix epoch in place of the current
\* time when it fails.
BootTimeOrEpoch(c) ==
    LET b == getBootTime(c.stat) IN
    IF b.ok THEN b.val * 1000000 ELSE 0

\* getBootTime in microseconds, with the fallback of NewOOMMonitor.
BootTimeOf(c) ==
    LET b == getBootTime(c.stat) IN
    IF b.ok THEN b.val * 1000000 ELSE c.now0

\* uint64(time.Since(bootTime).Microseconds())
StartupTimestampOf(c) == Uint64(c.now1 - BootTimeOf(c))

File(cmdline, comm) == [cmdline |-> cmdline, comm |-> comm]

\* getPIDMax on the text of /proc/sys/kernel/pid_max.
DefaultPidMax == 32768
getPIDMax(file) ==
    IF file = ReadErr THEN DefaultPidMax
    ELSE LET pidMax == Atoi(TrimSpace(file)) IN
         IF pidMax.ok THEN pidMax.val ELSE DefaultPidMax

\* The process table after PID 1 was reused by another program.
ReusedTable == (1 :> File(<<"c","NUL">>, <<"k","LF">>))

\* The process table the pipeline sees at construction.
InitTable == (1 :> File(<<"a","NUL","b","NUL">>, <<"k","LF">>))

\* Every process table over PIDs.
ProcDirs ==
    {File(<<"a","NUL","b","NUL">>, <<"k","LF">>), File(<<>>, <<"k","LF">>),
     File(<<>>, ReadErr), File(ReadErr, ReadErr)}
AllTables == UNION { [S -> ProcDirs] : S \in SUBSET PIDs }

\* Process directories at the edges of getProcessCmdline: arguments, a
\* cmdline of separators only with a blank comm, an empty cmdline with an
\* unreadable comm, and an unreadable cmdline with a readable comm; the
\* PIDs that have them, and their process tables.
StoredDirs ==
    {File(<<"a","NUL">>, <<"k","LF">>), File(<<"NUL"," ">>, <<"LF">>),
     File(<<>>, ReadErr), File(ReadErr, <<"k","LF">>)}
StoredPIDs == {1, 2}
StoredTables == UNION { [S -> StoredDirs] : S \in SUBSET StoredPIDs }

\* The pid_max file of a host whose pid_max is the capacity of the cache,
\* the PIDs such a host can have, and its process tables.
PidMaxFile == Itoa(CacheCap) \o <<"LF">>
SizedPIDs == 1..CacheCap
SizedTables == UNION { [S -> ProcDirs] : S \in SUBSET SizedPIDs }

InitReader ==
    /\ entryBuffer = <<>>
    /\ done = FALSE
    /\ scanEnded = FALSE
    /\ rlPc = "select"
    /\ rlEntry = NoKmsgEntry

InitRest ==
    /\ stPc = "tick"
    /\ entries = <<>>
    /\ idx = 0
    /\ event = NoEvent
    /\ muHeld = FALSE
    /\ rfPc = "tick"
    /\ rfProcs = <<>>
    /\ nRefresh = 0
    /\ refreshCall = NoRefreshCall
    /\ eventChan = <<>>
    /\ mainPc = "select"
    /\ mainEvent = NoEvent
    /\ lookups = 0
    /\ lastLookup = [pid |-> 0, result |-> <<>>, evicted |-> FALSE]
    /\ closeCall = NoCloseCall
    /\ notifyLog = <<>>
    /\ scanned = <<>>
    /\ enqueued = <<>>
    /\ drained = <<>>
    /\ sent = <<>>
    /\ notified = <<>>
    /\ call = [queue |-> <<>>, pushed |-> FALSE, returned |-> FALSE, result |-> <<>>,
               err |-> FALSE, left |-> <<>>]

\* The state NewOOMMonitor leaves: the reader started, the cache populated
\* by its first Refresh, the boot time and the baseline computed.
Init ==
    /\ InitReader
    /\ InitRest
    /\ cache = AddAll(<<>>, getAllProcesses(InitTable))
    /\ recency = UsedAll(<<>>, getAllProcesses(InitTable))
    /\ clk \in PipelineClocks
    /\ bootTime = BootTimeOf(clk)
    /\ startupTimestamp = StartupTimestampOf(clk)
    /\ checkInterval = 1
    /\ refreshInterval = 1

\* The process runs until main returns, os.Exit is called or a goroutine
\* panics.
Alive == mainPc \notin {"exited", "exit1", "crashed"}

(***************************************************************************)
(* KmsgReader.readLoop                                                     *)
(***************************************************************************)
\* The outer select: stop when done is closed, otherwise call Scan.
\* A readLoop that does not look at done before it reads.
ReadLoopSelectIgnoringDone ==
    /\ Alive
    /\ rlPc = "select"
    /\ rlPc' = "scan"
    /\ UNCHANGED <<entryBuffer, done, scanEnded, rlEntry>>
    /\ UNCHANGED <<startVars, clockVars, cacheVars, mainVars, lookupVars, callVars, histVars>>

ReadLoopSelect ==
    /\ Alive
    /\ rlPc = "select"
    /\ rlPc' = IF done THEN "stopped" ELSE "scan"
    /\ UNCHANGED <<entryBuffer, done, scanEnded, rlEntry>>
    /\ UNCHANGED <<startVars, clockVars, cacheVars, mainVars, lookupVars, callVars, histVars>>

\* A loop that returns on a parse failure instead of continuing.
ReadLoopLineReturning(line) ==
    LET parsed == parseKmsgLine(line) IN
    /\ scanned' = Append(scanned, line)
    /\ IF parsed.ok
       THEN rlPc' = "push" /\ rlEntry' = EntryOf(parsed)
       ELSE rlPc' = "stopped" /\ UNCHANGED rlEntry

\* What readLoop does with a line Scan returned: a parse failure is logged
\* and the loop continues; an entry goes to the push.
ReadLoopLine(line) ==
    LET parsed == parseKmsgLine(line) IN
    /\ scanned' = Append(scanned, line)
    /\ IF parsed.ok
       THEN rlPc' = "push" /\ rlEntry' = EntryOf(parsed)
       ELSE rlPc' = "select" /\ UNCHANGED rlEntry

\* Scan returns true with line, the next line of the stream.
ReadLoopScan(line) ==
    /\ Alive
    /\ rlPc = "scan"
    /\ ~scanEnded
    /\ ReadLoopLine(line)
    /\ UNCHANGED <<entryBuffer, done, scanEnded>>
    /\ UNCHANGED <<startVars, clockVars, cacheVars, mainVars, lookupVars, callVars>>
    /\ UNCHANGED <<enqueued, drained, sent, notified, call>>

\* Scan returns false (a read error, the end of the stream, a closed file):
\* the scanner stays at its end and the loop goes round.
ReadLoopScanFalse ==
    /\ Alive
    /\ rlPc = "scan"
    /\ scanEnded' = TRUE
    /\ rlPc' = "select"
    /\ UNCHANGED <<entryBuffer, done, rlEntry>>
    /\ UNCHANGED <<startVars, clockVars, cacheVars, mainVars, lookupVars, callVars, histVars>>

\* A push that does not wait: with the channel full the entry is dropped.
\* A reader that drops an entry whose timestamp does not exceed that of the
\* entry it enqueued last.
ReadLoopPushNewer ==
    /\ Alive
    /\ rlPc = "push"
    /\ Len(entryBuffer) < QueueCap
    /\ IF /\ enqueued # <<>>
          /\ rlEntry.Timestamp <= parseKmsgLine(scanned[enqueued[Len(enqueued)]]).Timestamp
       THEN UNCHANGED <<entryBuffer, enqueued>>
       ELSE /\ entryBuffer' = Append(entryBuffer, rlEntry)
            /\ enqueued' = Append(enqueued, rlEntry.SequenceNum)
    /\ call' = IF stPc = "drain" THEN [call EXCEPT !.pushed = TRUE] ELSE call
    /\ rlPc' = "select"
    /\ rlEntry' = NoKmsgEntry
    /\ UNCHANGED <<done, scanEnded>>
    /\ UNCHANGED <<startVars, clockVars, cacheVars, mainVars, lookupVars, callVars>>
    /\ UNCHANGED <<scanned, drained, sent, notified>>

ReadLoopPushOrDrop ==
    /\ Alive
    /\ rlPc = "push"
    /\ IF Len(entryBuffer) < QueueCap
       THEN /\ entryBuffer' = Append(entryBuffer, rlEntry)
            /\ enqueued' = Append(enqueued, rlEntry.SequenceNum)
       ELSE UNCHANGED <<entryBuffer, enqueued>>
    /\ call' = IF stPc = "drain" THEN [call EXCEPT !.pushed = TRUE] ELSE call
    /\ rlPc' = "select"
    /\ rlEntry' = NoKmsgEntry
    /\ UNCHANGED <<done, scanEnded>>
    /\ UNCHANGED <<startVars, clockVars, cacheVars, mainVars, lookupVars, callVars>>
    /\ UNCHANGED <<scanned, drained, sent, notified>>

\* A push into a channel without a capacity.
ReadLoopPushUnbounded ==
    /\ Alive
    /\ rlPc = "push"
    /\ entryBuffer' = Append(entryBuffer, rlEntry)
    /\ enqueued' = Append(enqueued, rlEntry.SequenceNum)
    /\ call' = IF stPc = "drain" THEN [call EXCEPT !.pushed = TRUE] ELSE call
    /\ rlPc' = "select"
    /\ rlEntry' = NoKmsgEntry
    /\ UNCHANGED <<done, scanEnded>>
    /\ UNCHANGED <<startVars, clockVars, cacheVars, mainVars, lookupVars, callVars>>
    /\ UNCHANGED <<scanned, drained, sent, notified>>

\* The inner select, case k.entryBuffer <- *entry: possible when the channel
\* has room.
ReadLoopPush ==
    /\ Alive
    /\ rlPc = "push"
    /\ Len(entryBuffer) < QueueCap
    /\ entryBuffer' = Append(entryBuffer, rlEntry)
    /\ enqueued' = Append(enqueued, rlEntry.SequenceNum)
    /\ call' = IF stPc = "drain" THEN [call EXCEPT !.pushed = TRUE] ELSE call
    /\ rlPc' = "select"
    /\ rlEntry' = NoKmsgEntry
    /\ UNCHANGED <<done, scanEnded>>
    /\ UNCHANGED <<startVars, clockVars, cacheVars, mainVars, lookupVars, callVars>>
    /\ UNCHANGED <<scanned, drained, sent, notified>>

\* The inner select, case <-k.done: return.
ReadLoopPushDone ==
    /\ Alive
    /\ rlPc = "push"
    /\ done
    /\ rlPc' = "stopped"
    /\ rlEntry' = NoKmsgEntry
    /\ UNCHANGED <<entryBuffer, done, scanEnded>>
    /\ UNCHANGED <<startVars, clockVars, cacheVars, mainVars, lookupVars, callVars, histVars>>


(***************************************************************************)
(* KmsgReader.ReadEntries, called by the detection loop of Start           *)
(***************************************************************************)
\* A tick of the detection ticker: Start calls ReadEntries.
StartTick ==
    /\ Alive
    /\ stPc = "tick"
    /\ stPc' = "drain"
    /\ entries' = <<>>
    /\ call' = [queue |-> entryBuffer, pushed |-> FALSE, returned |-> FALSE,
                result |-> <<>>, err |-> FALSE, left |-> <<>>]
    /\ UNCHANGED <<idx, event>>
    /\ UNCHANGED <<readerVars, clockVars, cacheVars, mainVars, lookupVars, callVars>>
    /\ UNCHANGED <<scanned, enqueued, drained, sent, notified>>

\* A receive that puts the entry in front of the result.
ReadEntriesRecvPrepending ==
    /\ Alive
    /\ stPc = "drain"
    /\ entryBuffer # <<>>
    /\ entries' = <<Head(entryBuffer)>> \o entries
    /\ entryBuffer' = Tail(entryBuffer)
    /\ UNCHANGED <<stPc, idx, event>>
    /\ UNCHANGED <<done, scanEnded, rlPc, rlEntry>>
    /\ UNCHANGED <<clockVars, cacheVars, mainVars, lookupVars, callVars, histVars>>

\* case entry := <-k.entryBuffer: entries = append(entries, entry)
ReadEntriesRecv ==
    /\ Alive
    /\ stPc = "drain"
    /\ entryBuffer # <<>>
    /\ entries' = Append(entries, Head(entryBuffer))
    /\ entryBuffer' = Tail(entryBuffer)
    /\ UNCHANGED <<stPc, idx, event>>
    /\ UNCHANGED <<done, scanEnded, rlPc, rlEntry>>
    /\ UNCHANGED <<clockVars, cacheVars, mainVars, lookupVars, callVars, histVars>>

\* A ReadEntries that waits for a first entry before it returns.
ReadEntriesReturnWaiting ==
    /\ Alive
    /\ stPc = "drain"
    /\ entryBuffer = <<>>
    /\ entries # <<>>
    /\ stPc' = "process"
    /\ idx' = 1
    /\ drained' = drained \o SeqNums(entries)
    /\ call' = [call EXCEPT !.returned = TRUE, !.result = entries, !.err = FALSE,
                            !.left = entryBuffer]
    /\ UNCHANGED <<entries, event>>
    /\ UNCHANGED <<readerVars, clockVars, cacheVars, mainVars, lookupVars, callVars>>
    /\ UNCHANGED <<scanned, enqueued, sent, notified>>

\* default: return entries, nil. Start then ranges over the batch.
ReadEntriesReturn ==
    /\ Alive
    /\ stPc = "drain"
    /\ entryBuffer = <<>>
    /\ stPc' = "process"
    /\ idx' = 1
    /\ drained' = drained \o SeqNums(entries)
    /\ call' = [call EXCEPT !.returned = TRUE, !.result = entries, !.err = FALSE,
                            !.left = entryBuffer]
    /\ UNCHANGED <<entries, event>>
    /\ UNCHANGED <<readerVars, clockVars, cacheVars, mainVars, lookupVars, callVars>>
    /\ UNCHANGED <<scanned, enqueued, sent, notified>>

(***************************************************************************)
(* OOMMonitor.Start: the body of the loop over the batch                   *)
(***************************************************************************)
\* A filter that also skips the entry stamped with the baseline itself.
BaselineSkipInclusive(ts, startup) == ts <= startup

\* if entry.Timestamp < m.startupTimestamp { continue }
BaselineSkip(ts, startup) == ts < startup

\* The entry yields an event: it passes the three tests of the loop body.
Publishes(entry, startup) ==
    /\ IsOOMMessage(entry)
    /\ ~BaselineSkip(entry.Timestamp, startup)
    /\ ExtractPID(entry.Message).ok

HostName == <<"h">>
\* getKernelVersion
KernelVersion == <<"6">>

UnknownProcess(pid) ==
    <<"<","u","n","k","n","o","w","n"," ","p","r","o","c","e","s","s"," ">> \o Itoa(pid) \o <<">">>

\* A createOOMEvent that converts the boot time and the timestamp to
\* milliseconds before it adds them.
createOOMEventMillisFirst(c, boot, pid, timestamp) ==
    LET found == GetCommandLine(c, pid) IN
    [Cmdline |-> IF found = <<>> THEN UnknownProcess(pid) ELSE found,
     PID |-> Itoa(pid),
     Hostname |-> HostName,
     Kernel |-> KernelVersion,
     Time |-> (boot \div 1000) + (timestamp \div 1000)]

\* A createOOMEvent without the fallback: an unknown PID gets an empty
\* command line.
createOOMEventNoFallback(c, boot, pid, timestamp) ==
    [Cmdline |-> GetCommandLine(c, pid),
     PID |-> Itoa(pid),
     Hostname |-> HostName,
     Kernel |-> KernelVersion,
     Time |-> (boot + timestamp) \div 1000]

\* OOMMonitor.createOOMEvent: the event built for pid and timestamp from the
\* cache c and the boot time boot.
createOOMEvent(c, boot, pid, timestamp) ==
    LET found == GetCommandLine(c, pid) IN
    [Cmdline |-> IF found = <<>> THEN UnknownProcess(pid) ELSE found,
     PID |-> Itoa(pid),
     Hostname |-> HostName,
     Kernel |-> KernelVersion,
     Time |-> (boot + timestamp) \div 1000]

\* An entry that is skipped: no OOM message, before the baseline, or no PID.
\* A detection loop that leaves the rest of the batch when an entry does
\* not qualify (break in place of continue).
StartSkipBatch ==
    /\ Alive
    /\ stPc = "process"
    /\ idx <= Len(entries)
    /\ ~Publishes(entries[idx], startupTimestamp)
    /\ idx' = Len(entries) + 1
    /\ UNCHANGED <<stPc, entries, event>>
    /\ UNCHANGED <<readerVars, clockVars, cacheVars, mainVars, lookupVars, callVars, histVars>>

StartSkip ==
    /\ Alive
    /\ stPc = "process"
    /\ idx <= Len(entries)
    /\ ~Publishes(entries[idx], startupTimestamp)
    /\ idx' = idx + 1
    /\ UNCHANGED <<stPc, entries, event>>
    /\ UNCHANGED <<readerVars, clockVars, cacheVars, mainVars, lookupVars, callVars, histVars>>

\* An entry that yields an event: createOOMEvent looks the PID up under the
\* shared lock, and Start goes on to send the event.
\* A detection loop that drops the qualifying entries it meets once the
\* reader is closed.
StartCreateUnlessDone ==
    /\ Alive
    /\ stPc = "process"
    /\ idx <= Len(entries)
    /\ Publishes(entries[idx], startupTimestamp)
    /\ ~muHeld
    /\ IF done
       THEN /\ idx' = idx + 1
            /\ UNCHANGED <<stPc, event, cache, recency>>
       ELSE /\ LET pid == ExtractPID(entries[idx].Message).val IN
                /\ event' = createOOMEvent(cache, bootTime, pid, entries[idx].Timestamp)
                /\ cache' = LruTouch(cache, pid)
                /\ recency' = IF LruContains(cache, pid) THEN Used(recency, pid) ELSE recency
            /\ stPc' = "send"
            /\ UNCHANGED idx
    /\ UNCHANGED entries
    /\ UNCHANGED <<muHeld, rfPc, rfProcs, nRefresh, refreshCall>>
    /\ UNCHANGED <<readerVars, clockVars, mainVars, lookupVars, callVars, histVars>>

StartCreate ==
    /\ Alive
    /\ stPc = "process"
    /\ idx <= Len(entries)
    /\ Publishes(entries[idx], startupTimestamp)
    /\ ~muHeld
    /\ LET pid == ExtractPID(entries[idx].Message).val IN
        /\ event' = createOOMEvent(cache, bootTime, pid, entries[idx].Timestamp)
        /\ cache' = LruTouch(cache, pid)
        /\ recency' = IF LruContains(cache, pid) THEN Used(recency, pid) ELSE recency
    /\ stPc' = "send"
    /\ UNCHANGED <<entries, idx>>
    /\ UNCHANGED <<muHeld, rfPc, rfProcs, nRefresh, refreshCall>>
    /\ UNCHANGED <<readerVars, clockVars, mainVars, lookupVars, callVars, histVars>>

\* A send that does not wait: with the channel full the event is dropped.
StartSendOrDrop ==
    /\ Alive
    /\ stPc = "send"
    /\ IF Len(eventChan) < EventCap
       THEN /\ eventChan' = Append(eventChan, event)
            /\ sent' = Append(sent, [seq |-> entries[idx].SequenceNum, ev |-> event])
       ELSE UNCHANGED <<eventChan, sent>>
    /\ idx' = idx + 1
    /\ stPc' = "process"
    /\ event' = NoEvent
    /\ UNCHANGED entries
    /\ UNCHANGED <<mainPc, mainEvent>>
    /\ UNCHANGED <<readerVars, clockVars, cacheVars, lookupVars, callVars>>
    /\ UNCHANGED <<scanned, enqueued, drained, notified, call>>

\* A send into a channel without a capacity.
StartSendUnbounded ==
    /\ Alive
    /\ stPc = "send"
    /\ eventChan' = Append(eventChan, event)
    /\ sent' = Append(sent, [seq |-> entries[idx].SequenceNum, ev |-> event])
    /\ idx' = idx + 1
    /\ stPc' = "process"
    /\ event' = NoEvent
    /\ UNCHANGED entries
    /\ UNCHANGED <<mainPc, mainEvent>>
    /\ UNCHANGED <<readerVars, clockVars, cacheVars, lookupVars, callVars>>
    /\ UNCHANGED <<scanned, enqueued, drained, notified, call>>

\* A send after which Start takes the same entry again.
StartSendRepeating ==
    /\ Alive
    /\ stPc = "send"
    /\ Len(eventChan) < EventCap
    /\ eventChan' = Append(eventChan, event)
    /\ sent' = Append(sent, [seq |-> entries[idx].SequenceNum, ev |-> event])
    /\ stPc' = "process"
    /\ event' = NoEvent
    /\ UNCHANGED <<entries, idx>>
    /\ UNCHANGED <<mainPc, mainEvent>>
    /\ UNCHANGED <<readerVars, clockVars, cacheVars, lookupVars, callVars>>
    /\ UNCHANGED <<scanned, enqueued, drained, notified, call>>

\* eventChan <- event: possible when the channel has room.
StartSend ==
    /\ Alive
    /\ stPc = "send"
    /\ Len(eventChan) < EventCap
    /\ eventChan' = Append(eventChan, event)
    /\ sent' = Append(sent, [seq |-> entries[idx].SequenceNum, ev |-> event])
    /\ idx' = idx + 1
    /\ stPc' = "process"
    /\ event' = NoEvent
    /\ UNCHANGED entries
    /\ UNCHANGED <<mainPc, mainEvent>>
    /\ UNCHANGED <<readerVars, clockVars, cacheVars, lookupVars, callVars>>
    /\ UNCHANGED <<scanned, enqueued, drained, notified, call>>

\* The batch is done: back to waiting for the ticker.
StartBatchEnd ==
    /\ Alive
    /\ stPc = "process"
    /\ idx > Len(entries)
    /\ stPc' = "tick"
    /\ entries' = <<>>
    /\ idx' = 0
    /\ UNCHANGED event
    /\ UNCHANGED <<readerVars, clockVars, cacheVars, mainVars, lookupVars, callVars, histVars>>

(***************************************************************************)
(* ProcessCache.Refresh, called by refreshProcessCache on its ticker       *)
(***************************************************************************)
\* A refresh loop that ends at the first Refresh error.
RefreshFailStopping ==
    /\ Alive
    /\ rfPc = "tick"
    /\ nRefresh' = nRefresh + 1
    /\ refreshCall' = [listed |-> FALSE, table |-> <<>>, result |-> "error"]
    /\ rfPc' = "stopped"
    /\ UNCHANGED <<cache, muHeld, rfProcs, recency>>
    /\ UNCHANGED <<readerVars, startVars, clockVars, mainVars, lookupVars, callVars, histVars>>

\* getAllProcesses fails: procDir cannot be listed. Refresh returns the
\* error, refreshProcessCache logs it and waits for the next tick.
RefreshFail ==
    /\ Alive
    /\ rfPc = "tick"
    /\ nRefresh' = nRefresh + 1
    /\ refreshCall' = [listed |-> FALSE, table |-> <<>>, result |-> "error"]
    /\ UNCHANGED <<cache, muHeld, rfPc, rfProcs, recency>>
    /\ UNCHANGED <<readerVars, startVars, clockVars, mainVars, lookupVars, callVars, histVars>>

\* getAllProcesses succeeds on the process table.
RefreshScan(table) ==
    /\ Alive
    /\ rfPc = "tick"
    /\ nRefresh' = nRefresh + 1
    /\ refreshCall' = [listed |-> TRUE, table |-> table, result |-> "running"]
    /\ rfProcs' = getAllProcesses(table)
    /\ rfPc' = "lock"
    /\ UNCHANGED <<cache, muHeld, recency>>
    /\ UNCHANGED <<readerVars, startVars, clockVars, mainVars, lookupVars, callVars, histVars>>

\* getAllProcesses at a finer grain, for what happens while it runs: the
\* call begins, reading procDir and the files of each PID, and later ends
\* with the processes it found.
RefreshScanBegin ==
    /\ Alive
    /\ rfPc = "tick"
    /\ nRefresh' = nRefresh + 1
    /\ refreshCall' = [listed |-> TRUE, table |-> <<>>, result |-> "running"]
    /\ rfPc' = "scan"
    /\ UNCHANGED <<cache, muHeld, rfProcs, recency>>
    /\ UNCHANGED <<readerVars, startVars, clockVars, mainVars, lookupVars, callVars, histVars>>

RefreshScanEnd(table) ==
    /\ Alive
    /\ rfPc = "scan"
    /\ refreshCall' = [refreshCall EXCEPT !.table = table]
    /\ rfProcs' = getAllProcesses(table)
    /\ rfPc' = "lock"
    /\ UNCHANGED <<cache, muHeld, nRefresh, recency>>
    /\ UNCHANGED <<readerVars, startVars, clockVars, mainVars, lookupVars, callVars, histVars>>

\* A Refresh that inserts without taking the lock.
RefreshLockNotTaken ==
    /\ Alive
    /\ rfPc = "lock"
    /\ rfPc' = "insert"
    /\ refreshCall' = [refreshCall EXCEPT !.table = <<>>]
    /\ UNCHANGED <<cache, muHeld, rfProcs, nRefresh, recency>>
    /\ UNCHANGED <<readerVars, startVars, clockVars, mainVars, lookupVars, callVars, histVars>>

\* A Refresh that empties the cache before it inserts what it scanned.
RefreshLockPurging ==
    /\ Alive
    /\ rfPc = "lock"
    /\ ~muHeld
    /\ muHeld' = TRUE
    /\ rfPc' = "insert"
    /\ refreshCall' = [refreshCall EXCEPT !.table = <<>>]
    /\ cache' = <<>>
    /\ UNCHANGED <<rfProcs, nRefresh, recency>>
    /\ UNCHANGED <<readerVars, startVars, clockVars, mainVars, lookupVars, callVars, histVars>>

\* pc.mu.Lock()
RefreshLock ==
    /\ Alive
    /\ rfPc = "lock"
    /\ ~muHeld
    /\ muHeld' = TRUE
    /\ rfPc' = "insert"
    /\ refreshCall' = [refreshCall EXCEPT !.table = <<>>]
    /\ UNCHANGED <<cache, rfProcs, nRefresh, recency>>
    /\ UNCHANGED <<readerVars, startVars, clockVars, mainVars, lookupVars, callVars, histVars>>

\* pc.cache.Add(proc.PID, proc.Cmdline), one process of the loop.
RefreshAdd ==
    /\ Alive
    /\ rfPc = "insert"
    /\ rfProcs # <<>>
    /\ cache' = LruAdd(cache, Head(rfProcs).PID, Head(rfProcs).Cmdline)
    /\ rfProcs' = Tail(rfProcs)
    /\ recency' = Used(recency, Head(rfProcs).PID)
    /\ UNCHANGED <<muHeld, rfPc, nRefresh, refreshCall>>
    /\ UNCHANGED <<readerVars, startVars, clockVars, mainVars, lookupVars, callVars, histVars>>

\* The loop is over: the deferred pc.mu.Unlock().
RefreshUnlock ==
    /\ Alive
    /\ rfPc = "insert"
    /\ rfProcs = <<>>
    /\ muHeld' = FALSE
    /\ rfPc' = "tick"
    /\ refreshCall' = [refreshCall EXCEPT !.result = "nil"]
    /\ UNCHANGED <<cache, rfProcs, nRefresh, recency>>
    /\ UNCHANGED <<readerVars, startVars, clockVars, mainVars, lookupVars, callVars, histVars>>

\* A GetCommandLine call on the cache used alone.
Lookup(pid) ==
    /\ ~muHeld
    /\ lookups' = lookups + 1
    /\ lastLookup' = [pid |-> pid, result |-> GetCommandLine(cache, pid),
                       evicted |-> pid \in Range(recency) /\ ~LruContains(cache, pid)]
    /\ cache' = LruTouch(cache, pid)
    /\ recency' = IF LruContains(cache, pid) THEN Used(recency, pid) ELSE recency
    /\ UNCHANGED <<muHeld, rfPc, rfProcs, nRefresh, refreshCall>>
    /\ UNCHANGED <<readerVars, startVars, clockVars, mainVars, callVars, histVars>>

(***************************************************************************)
(* main: the event loop                                                    *)
(***************************************************************************)
\* case event := <-eventChan
MainRecv ==
    /\ mainPc = "select"
    /\ eventChan # <<>>
    /\ mainEvent' = Head(eventChan)
    /\ eventChan' = Tail(eventChan)
    /\ mainPc' = "notify"
    /\ UNCHANGED <<readerVars, startVars, clockVars, cacheVars, lookupVars, callVars, histVars>>

\* The notifier.OOMEvent main builds from the event it received.
notifierEvent(e) ==
    [Cmdline |-> e.Cmdline,
     PID |-> e.PID,
     Hostname |-> e.Hostname,
     Kernel |-> e.Kernel,
     Time |-> e.Time]

\* slackNotifier.Notify(notifierEvent) returns nil, Slack having accepted
\* the post: main logs the success and selects again.
MainNotify ==
    /\ mainPc = "notify"
    /\ notified' = Append(notified, notifierEvent(mainEvent))
    /\ notifyLog' = Append(notifyLog, "nil")
    /\ mainPc' = "select"
    /\ mainEvent' = NoEvent
    /\ UNCHANGED <<eventChan, closeCall>>
    /\ UNCHANGED <<readerVars, startVars, clockVars, cacheVars, lookupVars>>
    /\ UNCHANGED <<scanned, enqueued, drained, sent, call>>

\* A main that calls Notify again with the same event when it failed.
MainNotifyFailRetrying ==
    /\ mainPc = "notify"
    /\ notified' = Append(notified, notifierEvent(mainEvent))
    /\ notifyLog' = Append(notifyLog, "error")
    /\ UNCHANGED <<mainPc, mainEvent, eventChan, closeCall>>
    /\ UNCHANGED <<readerVars, startVars, clockVars, cacheVars, lookupVars>>
    /\ UNCHANGED <<scanned, enqueued, drained, sent, call>>

\* slackNotifier.Notify(notifierEvent) returns an error (marshalling, the
\* request, the transport or a status other than 200): main logs the
\* failure and selects again.
MainNotifyFail ==
    /\ mainPc = "notify"
    /\ notified' = Append(notified, notifierEvent(mainEvent))
    /\ notifyLog' = Append(notifyLog, "error")
    /\ mainPc' = "select"
    /\ mainEvent' = NoEvent
    /\ UNCHANGED <<eventChan, closeCall>>
    /\ UNCHANGED <<readerVars, startVars, clockVars, cacheVars, lookupVars>>
    /\ UNCHANGED <<scanned, enqueued, drained, sent, call>>

\* case sig := <-sigChan: main returns, which runs the deferred Close.
\* The entries of the batch Start has not finished with.
Pending ==
    IF stPc \in {"process", "send"}
    THEN {entries[i].SequenceNum : i \in idx..Len(entries)}
    ELSE {}

MainSignal ==
    /\ mainPc = "select"
    /\ mainPc' = "closing"
    /\ UNCHANGED <<eventChan, mainEvent>>
    /\ UNCHANGED <<readerVars, startVars, clockVars, cacheVars, lookupVars, callVars, histVars>>

\* OOMMonitor.Close, that is KmsgReader.Close: close(k.done), k.file.Close().
Close ==
    /\ mainPc = "closing"
    /\ done' = TRUE
    /\ mainPc' = "closed"
    /\ closeCall' = [called |-> TRUE, pending |-> Pending, sent |-> Len(sent),
                     enqueued |-> Len(enqueued), queue |-> SeqNums(entryBuffer),
                     rlPc |-> rlPc]
    /\ UNCHANGED notifyLog
    /\ UNCHANGED <<entryBuffer, scanEnded, rlPc, rlEntry>>
    /\ UNCHANGED <<eventChan, mainEvent>>
    /\ UNCHANGED <<startVars, clockVars, cacheVars, lookupVars, histVars>>

\* main has returned: the process ends, and every goroutine with it.
MainExit ==
    /\ mainPc = "closed"
    /\ mainPc' = "exited"
    /\ UNCHANGED <<eventChan, mainEvent>>
    /\ UNCHANGED <<readerVars, startVars, clockVars, cacheVars, lookupVars, callVars, histVars>>

(***************************************************************************)
(* main: construction, NewOOMMonitor and the start of the loops            *)
(***************************************************************************)
\* The values the two interval flags can have, in seconds.
Intervals == {0, 1}

\* The process tables NewProcessCache can find.
BootTables == {InitTable}

\* Before main calls NewOOMMonitor: nothing runs, the flags are parsed and
\* the environment is what it is.
InitBoot ==
    /\ entryBuffer = <<>>
    /\ done = FALSE
    /\ scanEnded = FALSE
    /\ rlPc = "off"
    /\ rlEntry = NoKmsgEntry
    /\ stPc = "off"
    /\ entries = <<>>
    /\ idx = 0
    /\ event = NoEvent
    /\ cache = <<>>
    /\ recency = <<>>
    /\ muHeld = FALSE
    /\ rfPc = "off"
    /\ rfProcs = <<>>
    /\ nRefresh = 0
    /\ refreshCall = NoRefreshCall
    /\ eventChan = <<>>
    /\ mainPc = "new"
    /\ mainEvent = NoEvent
    /\ lookups = 0
    /\ lastLookup = [pid |-> 0, result |-> <<>>, evicted |-> FALSE]
    /\ closeCall = NoCloseCall
    /\ notifyLog = <<>>
    /\ scanned = <<>>
    /\ enqueued = <<>>
    /\ drained = <<>>
    /\ sent = <<>>
    /\ notified = <<>>
    /\ call = [queue |-> <<>>, pushed |-> FALSE, returned |-> FALSE, result |-> <<>>,
               err |-> FALSE, left |-> <<>>]
    /\ clk \in Clocks
    /\ checkInterval \in Intervals
    /\ refreshInterval \in Intervals
    /\ bootTime = 0
    /\ startupTimestamp = 0

\* NewKmsgReader fails to open /dev/kmsg: NewOOMMonitor returns the error
\* and main calls os.Exit(1).
NewKmsgReaderFail ==
    /\ mainPc = "new"
    /\ mainPc' = "exit1"
    /\ UNCHANGED <<eventChan, mainEvent>>
    /\ UNCHANGED <<readerVars, startVars, clockVars, cacheVars, lookupVars, callVars, histVars>>

\* NewKmsgReader succeeds: the reader is made and readLoop started.
NewKmsgReader ==
    /\ mainPc = "new"
    /\ mainPc' = "cache"
    /\ rlPc' = "select"
    /\ UNCHANGED <<entryBuffer, done, scanEnded, rlEntry>>
    /\ UNCHANGED <<eventChan, mainEvent>>
    /\ UNCHANGED <<startVars, clockVars, cacheVars, lookupVars, callVars, histVars>>

\* A failure of NewProcessCache after which the reader is left open.
NewProcessCacheFailLeaking ==
    /\ mainPc = "cache"
    /\ mainPc' = "exit1"
    /\ UNCHANGED <<eventChan, mainEvent>>
    /\ UNCHANGED <<readerVars, startVars, clockVars, cacheVars, lookupVars, callVars, histVars>>

\* NewProcessCache fails (lru.New, or the initial Refresh cannot list
\* procDir): NewOOMMonitor closes the reader and returns the error, and
\* main calls os.Exit(1).
NewProcessCacheFail ==
    /\ mainPc = "cache"
    /\ done' = TRUE
    /\ mainPc' = "exit1"
    /\ UNCHANGED <<entryBuffer, scanEnded, rlPc, rlEntry>>
    /\ UNCHANGED <<eventChan, mainEvent>>
    /\ UNCHANGED <<startVars, clockVars, cacheVars, lookupVars, callVars, histVars>>

\* NewProcessCache succeeds: the cache is made and populated by its first
\* Refresh from the process table.
NewProcessCache(table) ==
    /\ mainPc = "cache"
    /\ cache' = AddAll(<<>>, getAllProcesses(table))
    /\ recency' = UsedAll(<<>>, getAllProcesses(table))
    /\ mainPc' = "clock"
    /\ UNCHANGED <<muHeld, rfPc, rfProcs, nRefresh, refreshCall>>
    /\ UNCHANGED <<eventChan, mainEvent>>
    /\ UNCHANGED <<readerVars, startVars, clockVars, lookupVars, callVars, histVars>>

\* The rest of NewOOMMonitor: the boot time, with its fallback, and the
\* baseline; the monitor is returned.
NewOOMMonitorClock ==
    /\ mainPc = "clock"
    /\ bootTime' = BootTimeOf(clk)
    /\ startupTimestamp' = StartupTimestampOf(clk)
    /\ mainPc' = "start"
    /\ UNCHANGED <<clk, checkInterval, refreshInterval>>
    /\ UNCHANGED <<eventChan, mainEvent>>
    /\ UNCHANGED <<readerVars, startVars, cacheVars, lookupVars, callVars, histVars>>

\* main makes eventChan, starts the goroutine that calls Start and enters
\* its event loop.
MainStart ==
    /\ mainPc = "start"
    /\ mainPc' = "select"
    /\ stPc' = "begin"
    /\ UNCHANGED <<entries, idx, event>>
    /\ UNCHANGED <<eventChan, mainEvent>>
    /\ UNCHANGED <<readerVars, clockVars, cacheVars, lookupVars, callVars, histVars>>

\* The beginning of Start: go m.refreshProcessCache(), then
\* time.NewTicker(m.checkInterval), which panics on an interval that is not
\* positive; the panic of a goroutine ends the process.
StartBegin ==
    /\ Alive
    /\ stPc = "begin"
    /\ rfPc' = "begin"
    /\ IF checkInterval <= 0
       THEN mainPc' = "crashed" /\ UNCHANGED stPc
       ELSE stPc' = "tick" /\ UNCHANGED mainPc
    /\ UNCHANGED <<entries, idx, event>>
    /\ UNCHANGED <<cache, muHeld, rfProcs, nRefresh, refreshCall, recency>>
    /\ UNCHANGED <<eventChan, mainEvent>>
    /\ UNCHANGED <<readerVars, clockVars, lookupVars, callVars, histVars>>

\* The beginning of refreshProcessCache: time.NewTicker(m.refreshInterval).
RefreshBegin ==
    /\ Alive
    /\ rfPc = "begin"
    /\ IF refreshInterval <= 0
       THEN mainPc' = "crashed" /\ UNCHANGED rfPc
       ELSE rfPc' = "tick" /\ UNCHANGED mainPc
    /\ UNCHANGED <<cache, muHeld, rfProcs, nRefresh, refreshCall, recency>>
    /\ UNCHANGED <<eventChan, mainEvent>>
    /\ UNCHANGED <<readerVars, startVars, clockVars, lookupVars, callVars, histVars>>

(***************************************************************************)
(* The specifications                                                      *)
(***************************************************************************)
\* The detection pipeline: the reader on a stream of any records, the
\* detection loop and the event loop of main.
Next ==
    \/ ReadLoopSelect
    \/ (Len(scanned) < MaxLines /\ \E line \in StreamLines(Len(scanned) + 1) : ReadLoopScan(line))
    \/ ReadLoopPush
    \/ StartTick
    \/ ReadEntriesRecv
    \/ ReadEntriesReturn
    \/ StartSkip
    \/ StartCreate
    \/ StartSend
    \/ StartBatchEnd
    \/ MainRecv
    \/ MainNotify

Spec == Init /\ [][Next]_vars

\* The reader and its consumer up to shutdown: a stream with read failures
\* and without OOM kills, so that the detection loop only drains, and the
\* shutdown signal with the Close it leads to.
NextReader ==
    \/ ReadLoopSelect
    \/ (Len(scanned) < MaxReaderLines /\ \E line \in QuietLines(Len(scanned) + 1) : ReadLoopScan(line))
    \/ ReadLoopScanFalse
    \/ ReadLoopPush
    \/ ReadLoopPushDone
    \/ StartTick
    \/ ReadEntriesRecv
    \/ ReadEntriesReturn
    \/ StartSkip
    \/ StartBatchEnd
    \/ MainSignal
    \/ Close
    \/ MainExit

SpecReader == Init /\ [][NextReader]_vars

\* The pipeline under a burst of OOM kills, longer than the output channel
\* and the event main is handling can absorb.
InitBurst ==
    /\ InitReader
    /\ InitRest
    /\ cache = AddAll(<<>>, getAllProcesses(InitTable))
    /\ recency = UsedAll(<<>>, getAllProcesses(InitTable))
    /\ clk = Clock(StatBoot1, 1000002, 1000002)
    /\ bootTime = 1000000
    /\ startupTimestamp = 2
    /\ checkInterval = 1
    /\ refreshInterval = 1

NextBurst ==
    \/ ReadLoopSelect
    \/ (Len(scanned) < MaxBurstLines /\ \E line \in BurstLines(Len(scanned) + 1) : ReadLoopScan(line))
    \/ ReadLoopPush
    \/ StartTick
    \/ ReadEntriesRecv
    \/ ReadEntriesReturn
    \/ StartSkip
    \/ StartCreate
    \/ StartSend
    \/ StartBatchEnd
    \/ MainRecv
    \/ MainNotify

SpecBurst == InitBurst /\ [][NextBurst]_vars

\* The pipeline on kills with timestamps on both sides of a millisecond, for
\* boot times with and without a part below the millisecond.
InitTimed ==
    /\ InitReader
    /\ InitRest
    /\ cache = AddAll(<<>>, getAllProcesses(InitTable))
    /\ recency = UsedAll(<<>>, getAllProcesses(InitTable))
    /\ clk \in TimeClocks
    /\ bootTime = BootTimeOf(clk)
    /\ startupTimestamp = StartupTimestampOf(clk)
    /\ checkInterval = 1
    /\ refreshInterval = 1

NextTimed ==
    \/ ReadLoopSelect
    \/ (Len(scanned) < MaxTimedLines /\ \E line \in TimedLines(Len(scanned) + 1) : ReadLoopScan(line))
    \/ ReadLoopPush
    \/ StartTick
    \/ ReadEntriesRecv
    \/ ReadEntriesReturn
    \/ StartSkip
    \/ StartCreate
    \/ StartSend
    \/ StartBatchEnd
    \/ MainRecv
    \/ MainNotify

SpecTimed == InitTimed /\ [][NextTimed]_vars

\* The reader and its consumer on well-formed lines of every shape and on
\* malformed lines.
NextParsed ==
    \/ ReadLoopSelect
    \/ (Len(scanned) < MaxParsedLines
            /\ \E line \in WellFormedLines \cup MalformedLines : ReadLoopScan(line))
    \/ ReadLoopPush
    \/ StartTick
    \/ ReadEntriesRecv
    \/ ReadEntriesReturn
    \/ StartSkip
    \/ StartBatchEnd

SpecParsed == InitBurst /\ [][NextParsed]_vars

\* The pipeline on messages in several letter-casings.
NextCased ==
    \/ ReadLoopSelect
    \/ (Len(scanned) < MaxCasedLines /\ \E line \in CasedLines(Len(scanned) + 1) : ReadLoopScan(line))
    \/ ReadLoopPush
    \/ StartTick
    \/ ReadEntriesRecv
    \/ ReadEntriesReturn
    \/ StartSkip
    \/ StartCreate
    \/ StartSend
    \/ StartBatchEnd
    \/ MainRecv
    \/ MainNotify

SpecCased == InitBurst /\ [][NextCased]_vars

\* The pipeline with the shutdown: bursts of kills, a failing Refresh, then
\* the signal, Close and the return of main at any moment.
NextShutdown ==
    \/ ReadLoopSelect
    \/ (Len(scanned) < MaxShutdownLines /\ \E line \in BurstLines(Len(scanned) + 1) : ReadLoopScan(line))
    \/ ReadLoopPush
    \/ ReadLoopPushDone
    \/ StartTick
    \/ ReadEntriesRecv
    \/ ReadEntriesReturn
    \/ StartSkip
    \/ StartCreate
    \/ StartSend
    \/ StartBatchEnd
    \/ (nRefresh < MaxBootRefresh /\ RefreshFail)
    \/ MainRecv
    \/ MainNotify
    \/ MainSignal
    \/ Close
    \/ MainExit

SpecShutdown == InitBurst /\ [][NextShutdown]_vars

\* The pipeline with the refresh loop, where the first periodic Refresh
\* fails and the later ones fail or find PID 1 reused; the stream reports
\* kills of PID 1.
IsolatedLines(n) == {KernelLine(3, n, 2, OomKillMsg(1))}

IsolatedReader ==
    \/ ReadLoopSelect
    \/ (Len(scanned) < MaxIsolatedLines /\ \E line \in IsolatedLines(Len(scanned) + 1) : ReadLoopScan(line))
    \/ ReadLoopPush

IsolatedStart ==
    \/ StartTick
    \/ ReadEntriesRecv
    \/ ReadEntriesReturn
    \/ StartCreate
    \/ StartSend
    \/ StartBatchEnd

IsolatedRefresh ==
    \/ (nRefresh < MaxIsolatedRefresh /\ RefreshFail)
    \/ (0 < nRefresh /\ nRefresh < MaxIsolatedRefresh /\ RefreshScan(ReusedTable))
    \/ RefreshLock
    \/ RefreshAdd
    \/ RefreshUnlock

IsolatedMain ==
    \/ MainRecv
    \/ MainNotify

NextIsolated ==
    \/ IsolatedReader
    \/ IsolatedStart
    \/ IsolatedRefresh
    \/ IsolatedMain

\* The steps of Start other than StartCreate, and the states where
\* StartCreate can be taken: every entry of this stream qualifies.
IsolatedPolling ==
    \/ StartTick
    \/ ReadEntriesRecv
    \/ ReadEntriesReturn
    \/ StartSend
    \/ StartBatchEnd

CreateReady == Alive /\ stPc = "process" /\ idx <= Len(entries) /\ ~muHeld

\* Every goroutine that can take a step eventually takes one: the tickers
\* fire and the scheduler starves no goroutine. The fairness of StartCreate
\* is weak fairness written with CreateReady as its enabling condition.
SpecIsolated ==
    /\ InitBurst
    /\ [][NextIsolated]_vars
    /\ WF_vars(IsolatedPolling)
    /\ ([]<>(~CreateReady) \/ []<><<StartCreate>>_vars)
    /\ WF_vars(IsolatedRefresh)
    /\ WF_vars(IsolatedMain)

\* The pipeline on a stream of OOM lines at the baseline, some of which
\* have no PID that ExtractPID can return.
NextExtract ==
    \/ ReadLoopSelect
    \/ (Len(scanned) < MaxExtractLines /\ \E line \in ExtractLines(Len(scanned) + 1) : ReadLoopScan(line))
    \/ ReadLoopPush
    \/ StartTick
    \/ ReadEntriesRecv
    \/ ReadEntriesReturn
    \/ StartSkip
    \/ StartCreate
    \/ StartSend
    \/ StartBatchEnd
    \/ MainRecv
    \/ MainNotify

SpecExtract == InitBurst /\ [][NextExtract]_vars

\* The reader and the polling of Start with Close at any moment, on a
\* stream of records without OOM kills.  After Close the file is closed, so
\* a Scan in progress returns; readLoop is not starved.
ClosedLines(n) == {KernelLine(6, n, 2, NotOomMsg)}

ClosedScan ==
    \/ (Len(scanned) < MaxClosedLines /\ \E line \in ClosedLines(Len(scanned) + 1) : ReadLoopScan(line))
    \/ ReadLoopScanFalse

ClosedPush ==
    \/ ReadLoopPush
    \/ ReadLoopPushDone

NextClosed ==
    \/ ReadLoopSelect
    \/ ClosedScan
    \/ ClosedPush
    \/ StartTick
    \/ ReadEntriesRecv
    \/ ReadEntriesReturn
    \/ StartSkip
    \/ StartBatchEnd
    \/ MainSignal
    \/ Close
    \/ MainExit

SpecClosed ==
    /\ InitBurst
    /\ [][NextClosed]_vars
    /\ WF_vars(ReadLoopSelect)
    /\ WF_vars(ClosedPush)
    /\ ([]<>(~(done /\ Alive /\ rlPc = "scan")) \/ []<><<ClosedScan>>_vars)

\* The program without a shutdown signal, on a stream where every line is a
\* kill report, with posts to Slack that succeed or fail.  main is not
\* starved, and Notify returns: the HTTP client has a timeout.
NotifiedLines(n) == {KernelLine(3, n, 3, OomKillMsg(1)), KernelLine(3, n, 3, OomKillMsg(10))}

NotifiedMain ==
    \/ MainRecv
    \/ MainNotify
    \/ MainNotifyFail

NextNotified ==
    \/ ReadLoopSelect
    \/ (Len(scanned) < MaxNotifiedLines /\ \E line \in NotifiedLines(Len(scanned) + 1) : ReadLoopScan(line))
    \/ ReadLoopPush
    \/ StartTick
    \/ ReadEntriesRecv
    \/ ReadEntriesReturn
    \/ StartCreate
    \/ StartSend
    \/ StartBatchEnd
    \/ NotifiedMain

SpecNotified ==
    /\ InitBurst
    /\ [][NextNotified]_vars
    /\ WF_vars(NotifiedMain)

(***************************************************************************)
(* The reader and the polling of Start on a stream that never stops        *)
(* delivering records.  No step of readLoop, ReadEntries or Start looks at *)
(* the length of the batch being collected or at what was read before, so  *)
(* here the history is not recorded, every record carries the same         *)
(* sequence number, and of a batch only its first MaxEndlessBatch entries  *)
(* are followed.                                                           *)
(***************************************************************************)
EndlessLines == {KernelLine(6, 1, 2, NotOomMsg)}

\* Scan returns true with line: readLoop parses it.
EndlessScan(line) ==
    LET parsed == parseKmsgLine(line) IN
    /\ Alive
    /\ rlPc = "scan"
    /\ ~scanEnded
    /\ IF parsed.ok
       THEN rlPc' = "push" /\ rlEntry' = EntryOf(parsed)
       ELSE rlPc' = "select" /\ UNCHANGED rlEntry
    /\ UNCHANGED <<entryBuffer, done, scanEnded>>
    /\ UNCHANGED <<startVars, clockVars, cacheVars, mainVars, lookupVars, callVars, histVars>>

\* case k.entryBuffer <- *entry
EndlessPush ==
    /\ Alive
    /\ rlPc = "push"
    /\ Len(entryBuffer) < QueueCap
    /\ entryBuffer' = Append(entryBuffer, rlEntry)
    /\ call' = IF stPc = "drain" THEN [call EXCEPT !.pushed = TRUE] ELSE call
    /\ rlPc' = "select"
    /\ rlEntry' = NoKmsgEntry
    /\ UNCHANGED <<done, scanEnded>>
    /\ UNCHANGED <<startVars, clockVars, cacheVars, mainVars, lookupVars, callVars>>
    /\ UNCHANGED <<scanned, enqueued, drained, sent, notified>>

\* case entry := <-k.entryBuffer: entries = append(entries, entry)
EndlessRecv ==
    /\ Alive
    /\ stPc = "drain"
    /\ entryBuffer # <<>>
    /\ entries' = IF Len(entries) < MaxEndlessBatch
                  THEN Append(entries, Head(entryBuffer))
                  ELSE entries
    /\ entryBuffer' = Tail(entryBuffer)
    /\ UNCHANGED <<stPc, idx, event>>
    /\ UNCHANGED <<done, scanEnded, rlPc, rlEntry>>
    /\ UNCHANGED <<clockVars, cacheVars, mainVars, lookupVars, callVars, histVars>>

\* default: return entries, nil
EndlessReturn ==
    /\ Alive
    /\ stPc = "drain"
    /\ entryBuffer = <<>>
    /\ stPc' = "process"
    /\ idx' = 1
    /\ call' = [call EXCEPT !.returned = TRUE, !.result = entries, !.err = FALSE,
                            !.left = entryBuffer]
    /\ UNCHANGED <<entries, event>>
    /\ UNCHANGED <<readerVars, clockVars, cacheVars, mainVars, lookupVars, callVars>>
    /\ UNCHANGED <<scanned, enqueued, drained, sent, notified>>

EndlessProducer ==
    \/ ReadLoopSelect
    \/ (\E line \in EndlessLines : EndlessScan(line))
    \/ EndlessPush

EndlessConsumer ==
    \/ StartTick
    \/ EndlessRecv
    \/ EndlessReturn
    \/ StartSkip
    \/ StartBatchEnd

NextEndless ==
    \/ EndlessProducer
    \/ EndlessConsumer

\* The steps of Start other than StartSkip, and the states where Scan
\* returns and where StartSkip can be taken: no record of this stream
\* yields an event.
EndlessPolling ==
    \/ StartTick
    \/ EndlessRecv
    \/ EndlessReturn
    \/ StartBatchEnd

ScanReady == Alive /\ rlPc = "scan" /\ ~scanEnded

SkipReady == Alive /\ stPc = "process" /\ idx <= Len(entries)

\* Fair scheduling of the two goroutines: each step of readLoop and of
\* Start that stays possible is taken; the stream always has a next line.
\* The fairness of the Scan and of StartSkip is weak fairness written with
\* ScanReady and SkipReady as their enabling conditions.
SpecEndless ==
    /\ InitBurst
    /\ [][NextEndless]_vars
    /\ WF_vars(ReadLoopSelect)
    /\ ([]<>(~ScanReady) \/ []<><<\E line \in EndlessLines : EndlessScan(line)>>_vars)
    /\ WF_vars(EndlessPush)
    /\ WF_vars(EndlessPolling)
    /\ ([]<>(~SkipReady) \/ []<><<StartSkip>>_vars)

\* The reader, Start and the refresh goroutine over process directories at
\* the edges of getProcessCmdline: NewProcessCache over any such table,
\* Refresh calls over any such table, and kill reports for the PIDs.
InitStored ==
    /\ InitReader
    /\ InitRest
    /\ \E table \in StoredTables :
        /\ cache = AddAll(<<>>, getAllProcesses(table))
        /\ recency = UsedAll(<<>>, getAllProcesses(table))
    /\ clk = Clock(StatBoot1, 1000002, 1000002)
    /\ bootTime = 1000000
    /\ startupTimestamp = 2
    /\ checkInterval = 1
    /\ refreshInterval = 1

StoredLines(n) == {KernelLine(3, n, 3, OomKillMsg(pid)) : pid \in StoredPIDs}

NextStored ==
    \/ ReadLoopSelect
    \/ (Len(scanned) < MaxStoredLines /\ \E line \in StoredLines(Len(scanned) + 1) : ReadLoopScan(line))
    \/ ReadLoopPush
    \/ StartTick
    \/ ReadEntriesRecv
    \/ ReadEntriesReturn
    \/ StartCreate
    \/ StartSend
    \/ StartBatchEnd
    \/ (nRefresh < MaxStoredOps /\ \E table \in StoredTables : RefreshScan(table))
    \/ RefreshLock
    \/ RefreshAdd
    \/ RefreshUnlock

SpecStored == InitStored /\ [][NextStored]_vars

\* The program from before NewOOMMonitor: construction with its failures,
\* the start of the loops with any interval flags, then a quiet stream, a
\* failing Refresh and the shutdown signal.
NextBoot ==
    \/ NewKmsgReaderFail
    \/ NewKmsgReader
    \/ NewProcessCacheFail
    \/ (\E table \in BootTables : NewProcessCache(table))
    \/ NewOOMMonitorClock
    \/ MainStart
    \/ StartBegin
    \/ RefreshBegin
    \/ ReadLoopSelect
    \/ (Len(scanned) < MaxBootLines /\ \E line \in QuietLines(Len(scanned) + 1) : ReadLoopScan(line))
    \/ ReadLoopPush
    \/ StartTick
    \/ ReadEntriesRecv
    \/ ReadEntriesReturn
    \/ StartSkip
    \/ StartBatchEnd
    \/ (nRefresh < MaxBootRefresh /\ RefreshFail)
    \/ MainSignal
    \/ Close
    \/ MainExit

SpecBoot == InitBoot /\ [][NextBoot]_vars

\* The cache used alone: NewProcessCache over any listable process table,
\* then Refresh and GetCommandLine calls in any order.
InitCache ==
    /\ InitReader
    /\ InitRest
    /\ \E table \in AllTables :
        /\ cache = AddAll(<<>>, getAllProcesses(table))
        /\ recency = UsedAll(<<>>, getAllProcesses(table))
    /\ clk = Clock(StatBoot1, 1000002, 1000002)
    /\ bootTime = 1000000
    /\ startupTimestamp = 2
    /\ checkInterval = 1
    /\ refreshInterval = 1

NextCache ==
    \/ (nRefresh < MaxCacheOps /\ RefreshFail)
    \/ (nRefresh < MaxCacheOps /\ \E table \in AllTables : RefreshScan(table))
    \/ RefreshLock
    \/ RefreshAdd
    \/ RefreshUnlock
    \/ (lookups < MaxCacheOps /\ \E pid \in PIDs : Lookup(pid))

SpecCache == InitCache /\ [][NextCache]_vars

\* The cache with lookups that arrive while a Refresh call is running.
NextLocked ==
    \/ (nRefresh < MaxLockedOps /\ RefreshScanBegin)
    \/ (\E table \in AllTables : RefreshScanEnd(table))
    \/ RefreshLock
    \/ RefreshAdd
    \/ RefreshUnlock
    \/ (rfPc # "tick" /\ lookups < MaxLockedOps /\ \E pid \in PIDs : Lookup(pid))

SpecLocked == InitCache /\ [][NextLocked]_vars

\* The cache of a host whose pid_max is its capacity: NewProcessCache over
\* any process table with PIDs in 1..pid_max, then Refresh and
\* GetCommandLine calls in any order.
InitSized ==
    /\ InitReader
    /\ InitRest
    /\ getPIDMax(PidMaxFile) = CacheCap
    /\ \E table \in SizedTables :
        /\ cache = AddAll(<<>>, getAllProcesses(table))
        /\ recency = UsedAll(<<>>, getAllProcesses(table))
    /\ clk = Clock(StatBoot1, 1000002, 1000002)
    /\ bootTime = 1000000
    /\ startupTimestamp = 2
    /\ checkInterval = 1
    /\ refreshInterval = 1

NextSized ==
    \/ (nRefresh < MaxSizedOps /\ RefreshFail)
    \/ (nRefresh < MaxSizedOps /\ \E table \in SizedTables : RefreshScan(table))
    \/ RefreshLock
    \/ RefreshAdd
    \/ RefreshUnlock
    \/ (lookups < MaxSizedOps /\ \E pid \in PIDs : Lookup(pid))

SpecSized == InitSized /\ [][NextSized]_vars

(***************************************************************************)
(* Properties of the reader (SpecReader)                                   *)
(***************************************************************************)
\* The line is a record of the kernel with sequence number n.
IsKernelRecord(line, n) ==
    \E prio \in {3, 6}, ts \in Timestamps, msg \in {NotOomMsg, OomNoPidMsg} \cup {OomKillMsg(p) : p \in PIDs} :
        line = KernelLine(prio, n, ts, msg)

\* The sequence numbers of the records among the lines scanned so far, in
\* stream order: the n-th line carries sequence number n.
RECURSIVE RecordsUpTo(_)
RecordsUpTo(n) ==
    IF n = 0 THEN <<>>
    ELSE RecordsUpTo(n - 1) \o (IF IsKernelRecord(scanned[n], n) THEN <<n>> ELSE <<>>)
ScannedRecords == RecordsUpTo(Len(scanned))

\* The entry readLoop holds in its push, if any.
InPush == IF rlPc = "push" THEN <<rlEntry.SequenceNum>> ELSE <<>>
\* The entries the running ReadEntries call has received and not yet returned.
InCall == IF stPc = "drain" THEN SeqNums(entries) ELSE <<>>

\* C1: while the reader is not closed no parsed entry is lost, duplicated
\* or overwritten: the records scanned so far are, in order, exactly the
\* entries ReadEntries has returned, those the running call has received,
\* those queued in the channel and the one the reader is waiting to push.
C1_NoEntryLost ==
    ~done => ScannedRecords = drained \o InCall \o SeqNums(entryBuffer) \o InPush

\* C1 witness: the reader waits with an entry on a full queue after the
\* consumer has drained earlier entries.
C1_Witness ==
    /\ ~done
    /\ rlPc = "push"
    /\ Len(entryBuffer) = QueueCap
    /\ drained # <<>>

\* A step of the reader's background task.
ReadLoopStep ==
    \/ ReadLoopSelect
    \/ \E line \in QuietLines(Len(scanned) + 1) : ReadLoopScan(line)
    \/ ReadLoopScanFalse
    \/ ReadLoopPush
    \/ ReadLoopPushDone

\* C7: the entry queue never holds more than its capacity; a reader that
\* wants to push while the queue is full cannot take a step unless done is
\* closed (it reads no further line), and when it leaves the push on a full
\* queue it is because of Close: it stops.
C7_StateInv ==
    /\ Len(entryBuffer) <= QueueCap
    /\ (Alive /\ rlPc = "push" /\ Len(entryBuffer) = QueueCap /\ ~done) => ~ENABLED ReadLoopStep
    /\ (Alive /\ rlPc = "push" /\ Len(entryBuffer) < QueueCap) => ENABLED ReadLoopPush
C7_BoundedQueue ==
    /\ []C7_StateInv
    /\ [][(rlPc = "push" /\ Len(entryBuffer) = QueueCap)
            => (scanned' = scanned /\ enqueued' = enqueued
                /\ (rlPc' = "push" \/ (done /\ rlPc' = "stopped")))]_vars

\* C7 witness: the queue is full and the reader waits in its push.
C7_Witness == Len(entryBuffer) = QueueCap /\ rlPc = "push" /\ ~done /\ stPc = "tick"

\* A step of a running ReadEntries call.
ReadEntriesStep == ReadEntriesRecv \/ ReadEntriesReturn

IsPrefix(a, b) == Len(a) <= Len(b) /\ SubSeq(b, 1, Len(a)) = a

\* C8: a running ReadEntries call can always take a step, and on an empty
\* queue that step is its return; a call that returned gave no error and a
\* result that begins with the entries queued when it was called; when the
\* reader pushed nothing during the call the result is exactly those
\* entries (none when the queue was empty) and the queue was left empty.
C8_NonBlocking ==
    /\ (Alive /\ stPc = "drain") => ENABLED ReadEntriesStep
    /\ (Alive /\ stPc = "drain" /\ entryBuffer = <<>>) => ENABLED ReadEntriesReturn
    /\ call.returned =>
        /\ ~call.err
        /\ IsPrefix(call.queue, call.result)
        /\ call.left = <<>>
        /\ ~call.pushed => call.result = call.queue

\* C8 witness: a call made on a queue of two entries returned exactly them;
\* the call before it returned nothing.
C8_Witness ==
    /\ call.returned
    /\ ~call.pushed
    /\ Len(call.queue) = 2
    /\ call.result = call.queue
    /\ SeqNums(call.result) = drained

\* C9: a line that does not parse enqueues nothing and does not stop the
\* reader: the entries pushed so far, with the one in the push, are exactly
\* the records among the scanned lines, in order, each queued entry is the
\* record of its line, and the reader stops only once done is closed.
C9_MalformedTolerated ==
    /\ ~done => enqueued \o InPush = ScannedRecords
    /\ \A i \in 1..Len(entryBuffer) :
        LET p == parseKmsgLine(scanned[entryBuffer[i].SequenceNum]) IN
        p.ok /\ entryBuffer[i] = EntryOf(p)
    /\ rlPc = "stopped" => done

\* C9 witness: a record scanned after a continuation line has been pushed.
C9_Witness ==
    \E i \in 1..Len(scanned), j \in 1..Len(enqueued) :
        /\ scanned[i] = ContinuationLine
        /\ enqueued[j] > i
        /\ ~done

(***************************************************************************)
(* Properties of the detection pipeline (Spec)                             *)
(***************************************************************************)
\* The n-th line is an OOM kill, names a PID, and is stamped at or after
\* the baseline.
Qualifies(n) ==
    \E ts \in Timestamps, pid \in PIDs :
        /\ scanned[n] = KernelLine(3, n, ts, OomKillMsg(pid))
        /\ ts >= startupTimestamp

SentSeqs == [i \in 1..Len(sent) |-> sent[i].seq]
SentEvents == [i \in 1..Len(sent) |-> sent[i].ev]

\* The entries Start has drained and finished with.
Processed == Range(drained) \ Pending

\* C2: an event is published only for an entry that is an OOM kill, names a
\* PID and is stamped at or after the baseline (timestamp >= B: B and B + 1
\* are kept, B - 1 is dropped), and every such entry Start has finished
\* with has been published.
C2_BaselineFilter ==
    \A n \in 1..Len(scanned) :
        /\ n \in Range(SentSeqs) => Qualifies(n)
        /\ (n \in Processed /\ Qualifies(n)) => n \in Range(SentSeqs)

\* C2 witness: with baseline 2, an OOM kill stamped 1 was dropped and one
\* stamped 2 was published.
C2_Witness ==
    /\ startupTimestamp = 2
    /\ \E n \in Processed, m \in Processed :
        /\ scanned[n] = KernelLine(3, n, 1, OomKillMsg(1))
        /\ n \notin Range(SentSeqs)
        /\ scanned[m] = KernelLine(3, m, 2, OomKillMsg(1))
        /\ m \in Range(SentSeqs)

NoDuplicates(q) == \A i \in 1..Len(q), j \in 1..Len(q) : q[i] = q[j] => i = j

\* C3: no entry is returned by two ReadEntries calls, no entry is published
\* twice, and the events published are as many as the qualifying entries
\* Start has finished with, never more than those drained.
C3_ExactlyOnce ==
    /\ NoDuplicates(drained)
    /\ NoDuplicates(SentSeqs)
    /\ Len(sent) = Cardinality({n \in Processed : Qualifies(n)})
    /\ Len(sent) <= Cardinality({n \in Range(drained) : Qualifies(n)})

\* C3 witness: two OOM kills were drained and each was published once.
C3_Witness ==
    /\ Len(drained) = 2
    /\ Len(sent) = 2
    /\ stPc = "tick"

Increasing(q) == \A i \in 1..Len(q), j \in 1..Len(q) : i < j => q[i] < q[j]

\* C4: the entries ReadEntries returns, within a call and across calls, then
\* those the running call holds and those still queued, are the entries in
\* the order the reader pushed them, which is the order of the stream; the
\* events are sent in the order of the stream too.
C4_Fifo ==
    /\ drained \o InCall \o SeqNums(entryBuffer) = enqueued
    /\ Increasing(enqueued)
    /\ call.returned => Increasing(SeqNums(call.result))
    /\ Increasing(SentSeqs)

\* C4 witness: one call returned two entries and both were published.
C4_Witness ==
    /\ call.returned
    /\ Len(call.result) = 2
    /\ Len(sent) = 2

\* C5 as claimed: the detection loop is never stalled by backpressure. While
\* the output channel is full and main is busy in Notify, a detection loop
\* that has an event to publish can take its next step, the only one it has
\* there, and so go on to its next drain.
C5_NeverStalled ==
    (Alive /\ Len(eventChan) = EventCap /\ mainPc = "notify" /\ stPc = "send")
        => ENABLED StartSend

\* C5 as amended: the detection loop is stalled by the backpressure of the
\* output channel. In its publish step it can go on exactly when the channel
\* has room; while it waits there on a full channel it drains nothing and
\* drops nothing, whatever the other tasks do.
C5_StalledByFullChannel ==
    /\ [](Alive /\ stPc = "send" => (ENABLED StartSend <=> Len(eventChan) < EventCap))
    /\ [][(stPc = "send" /\ Len(eventChan) = EventCap)
            => (stPc' = "send" /\ event' = event /\ entries' = entries /\ idx' = idx
                /\ drained' = drained /\ sent' = sent /\ call' = call)]_vars

\* C5 witness: the detection loop waits to publish on a full channel while
\* main is busy in Notify.
C5_Witness == stPc = "send" /\ Len(eventChan) = EventCap /\ mainPc = "notify"

\* The event main has received and is handing to Notify, if any.
InNotify == IF mainPc = "notify" THEN <<mainEvent>> ELSE <<>>

CacheKeys == [i \in 1..Len(cache) |-> cache[i].key]

\* C10: the cache never holds more than its capacity; it holds the most
\* recently used PIDs, so the PID an insertion evicts is the least recently
\* used one, whether last used by an insertion, an update or a lookup; and
\* a lookup of an evicted PID returns the empty string.
C10_StateInv ==
    /\ Len(cache) <= CacheCap
    /\ CacheKeys = SubSeq(recency, 1, Len(cache))
    /\ lastLookup.evicted => lastLookup.result = <<>>
C10_LruEviction ==
    /\ []C10_StateInv
    /\ [][\A p \in PIDs :
            (LruContains(cache, p) /\ ~LruContains(cache', p))
            => /\ Len(cache) = CacheCap
               /\ p = recency[Len(cache)]
               /\ rfPc = "insert"
               /\ ~LruContains(cache, Head(rfProcs).PID)]_vars

\* C10 witness: a PID that had been evicted from a full cache was looked up.
C10_Witness ==
    /\ lastLookup.evicted
    /\ Len(cache) = CacheCap
    /\ nRefresh > 0

\* C11: Refresh never removes a PID because its scan did not see it. In
\* every step a cached PID either stays with the command line it had, or
\* is the PID Refresh is inserting and takes the command line just scanned,
\* or is evicted by the insertion of a PID not yet cached into a full
\* cache; and a lookup returns the command line the cache holds.
C11_StaleButPresent ==
    [][/\ \A p \in PIDs :
            LruContains(cache, p) =>
                \/ /\ LruContains(cache', p)
                   /\ GetCommandLine(cache', p) = GetCommandLine(cache, p)
                \/ /\ rfPc = "insert" /\ rfProcs # <<>>
                   /\ Head(rfProcs).PID = p
                   /\ GetCommandLine(cache', p) = Head(rfProcs).Cmdline
                \/ /\ rfPc = "insert" /\ rfProcs # <<>>
                   /\ Len(cache) = CacheCap
                   /\ ~LruContains(cache, Head(rfProcs).PID)
                   /\ ~LruContains(cache', p)
       /\ lookups' # lookups =>
            lastLookup'.result = GetCommandLine(cache, lastLookup'.pid)]_vars

\* C11 witness: PID 2 was cached at construction and the one Refresh made
\* since, which has completed, saw PID 1 and not PID 2 (a scan with both
\* inserts 1 before 2 and would leave 2 in front); PID 2 still resolves.
C11_Witness ==
    /\ nRefresh = 1
    /\ rfPc = "tick"
    /\ lookups = 0
    /\ CacheKeys = <<1, 2>>
    /\ recency = <<1, 2>>
    /\ GetCommandLine(cache, 2) # <<>>

(***************************************************************************)
(* Properties of the events (Spec)                                         *)
(***************************************************************************)
\* The decimal text of the PIDs, written out.
DecimalText == (1 :> <<"1">>) @@ (2 :> <<"2">>) @@ (10 :> <<"1", "0">>)

\* "<unknown process p>", written out.
Placeholder(p) ==
    <<"<","u","n","k","n","o","w","n"," ","p","r","o","c","e","s","s"," ">>
        \o DecimalText[p] \o <<">">>

\* The n-th line reports the kill of process pid.
KillOf(n, pid) == \E ts \in Timestamps : scanned[n] = KernelLine(3, n, ts, OomKillMsg(pid))

\* C12: the event published for a kill of PID p has pid equal to the decimal
\* text of p, and cmdline equal to the cached command line of p when the
\* cache has one and to the placeholder "<unknown process p>" when it has
\* none.
C12_UnknownProcessFallback ==
    \A i \in 1..Len(sent) : \A p \in PIDs :
        KillOf(sent[i].seq, p) =>
            /\ sent[i].ev.PID = DecimalText[p]
            /\ \A j \in 1..Len(cache) : cache[j].key = p => sent[i].ev.Cmdline = cache[j].value
            /\ (\A j \in 1..Len(cache) : cache[j].key # p) => sent[i].ev.Cmdline = Placeholder(p)

\* C12 witness: an event was published for PID 10, which the cache does not
\* know, with the placeholder, and one for PID 1 with its command line.
C12_Witness ==
    \E i \in 1..Len(sent), j \in 1..Len(sent) :
        /\ KillOf(sent[i].seq, 10)
        /\ sent[i].ev.PID = <<"1", "0">>
        /\ sent[i].ev.Cmdline = Placeholder(10)
        /\ KillOf(sent[j].seq, 1)
        /\ sent[j].ev.Cmdline = <<"a", " ", "b">>

(***************************************************************************)
(* Properties of the event time (SpecTimed)                                *)
(***************************************************************************)
\* The n-th line is a kill stamped ts.
KillAt(n, ts) == scanned[n] = KernelLine(3, n, ts, OomKillMsg(1))

\* The boot time T0 in microseconds, from what construction read: the
\* whole seconds of btime, or the time.Now() of the fallback.
T0 == IF clk.stat = StatBoot1 THEN 1000000 ELSE clk.now0

\* C13 as claimed: the Time of the event of an entry stamped ts is T0 in
\* milliseconds plus ts / 1000.
C13_MillisPlusMillis ==
    \A i \in 1..Len(sent) : \A ts \in KillTimes :
        KillAt(sent[i].seq, ts) => sent[i].ev.Time = (T0 \div 1000) + (ts \div 1000)

\* C13 as amended: the Time of the event of an entry stamped ts is the
\* instant T0 + ts in whole milliseconds, (T0 + ts) / 1000 with T0 and ts in
\* microseconds. It is T0 in milliseconds plus ts / 1000 when T0 has no
\* part below the millisecond, as a boot time read from btime has, and in
\* every case that or one millisecond more.
C13_InstantInMillis ==
    \A i \in 1..Len(sent) : \A ts \in KillTimes :
        KillAt(sent[i].seq, ts) =>
            /\ sent[i].ev.Time = (T0 + ts) \div 1000
            /\ T0 % 1000 = 0 => sent[i].ev.Time = (T0 \div 1000) + (ts \div 1000)
            /\ sent[i].ev.Time - ((T0 \div 1000) + (ts \div 1000)) \in {0, 1}

\* C13 witness: with the fallback boot time 1000999 an event was published
\* for an entry stamped 2500, with Time 1003 where 1000 + 2 is 1002.
C13_Witness ==
    \E i \in 1..Len(sent) :
        /\ KillAt(sent[i].seq, 2500)
        /\ T0 = 1000999
        /\ sent[i].ev.Time = 1003

(***************************************************************************)
(* Properties of the parser (SpecParsed)                                   *)
(***************************************************************************)
\* The entry the parts of a well-formed line stand for.
EntryFor(p, seq, ts, msg) ==
    [Priority |-> p, SequenceNum |-> seq, Timestamp |-> ts, Message |-> msg]

\* C14: a well-formed line "<p>,<seq>,<ts>[,extra...];<msg>" parses to
\* exactly {p, seq, ts, msg}, msg being everything after the first ';' and
\* the extra fields being ignored, and that is the entry the reader goes on
\* to push; a line without ';' or with fewer than three fields before the
\* first ';' does not parse, and the reader pushes nothing for it.
C14_ParserRoundTrip ==
    /\ \A n \in 1..Len(scanned) :
        /\ \A p \in LinePrios, seq \in LineSeqs, ts \in LineTimes,
              extra \in LineExtras, msg \in LineMsgs :
            scanned[n] = WellFormedLine(p, seq, ts, extra, msg) =>
                /\ parseKmsgLine(scanned[n]).ok
                /\ EntryOf(parseKmsgLine(scanned[n])) = EntryFor(p, seq, ts, msg)
        /\ scanned[n] \in MalformedLines => ~parseKmsgLine(scanned[n]).ok
    /\ rlPc = "push" =>
        \E p \in LinePrios, seq \in LineSeqs, ts \in LineTimes,
           extra \in LineExtras, msg \in LineMsgs :
            /\ scanned[Len(scanned)] = WellFormedLine(p, seq, ts, extra, msg)
            /\ rlEntry = EntryFor(p, seq, ts, msg)
    /\ Len(enqueued) + (IF rlPc = "push" THEN 1 ELSE 0)
        = Cardinality({n \in 1..Len(scanned) : scanned[n] \in WellFormedLines})

\* C14 witness: the reader holds the entry of "6,42,2500,c,x;a;b,c", whose
\* message is "a;b,c".
C14_Witness ==
    /\ rlPc = "push"
    /\ scanned[Len(scanned)] =
        <<"6", ",", "4", "2", ",", "2", "5", "0", "0", ",", "c", ",", "x", ";", "a", ";", "b", ",", "c">>
    /\ rlEntry = [Priority |-> 6, SequenceNum |-> 42, Timestamp |-> 2500,
                  Message |-> <<"a", ";", "b", ",", "c">>]

(***************************************************************************)
(* Properties of the classifier (SpecCased)                                *)
(***************************************************************************)
\* C15: IsOOMMessage is true of a message exactly when it contains "out of
\* memory:" in some letter-casing, anywhere, and ExtractPID gives the PID
\* after "killed process" whatever the casing; so the entries Start has
\* finished with that were published are those whose message has both, each
\* with the same PID 1234.
C15_CaseInsensitive ==
    /\ \A n \in 1..Len(scanned) : \A c \in CasedMsgs :
        scanned[n] = KernelLine(3, n, 2, c.text) =>
            /\ IsOOMMessage([Message |-> c.text]) <=> c.oom
            /\ ExtractPID(c.text).ok <=> c.pid # 0
            /\ c.pid # 0 => ExtractPID(c.text).val = c.pid
            /\ n \in Range(SentSeqs) => c.oom /\ c.pid # 0
            /\ (n \in Processed /\ c.oom /\ c.pid # 0) => n \in Range(SentSeqs)
    /\ \A i \in 1..Len(sent) : sent[i].ev.PID = <<"1", "2", "3", "4">>

\* C15 witness: "Out Of Memory: killed process 1234 (foo)" and "OUT OF
\* MEMORY: Killed Process 1234 (foo)" were both published, with PID 1234.
C15_Witness ==
    /\ Len(sent) = 2
    /\ \E i \in 1..2, j \in 1..2 :
        /\ SubSeq(scanned[sent[i].seq], 9, 11) = <<"O", "u", "t">>
        /\ SubSeq(scanned[sent[j].seq], 9, 25) =
            <<"O","U","T"," ","O","F"," ","M","E","M","O","R","Y",":"," ","K","i">>
        /\ sent[i].ev.PID = <<"1", "2", "3", "4">>
        /\ sent[j].ev.PID = <<"1", "2", "3", "4">>


(***************************************************************************)
(* C16  Construction failure propagation.  When the process has exited     *)
(* with status 1, the detection loop and the refresh loop were never       *)
(* started and no monitor was made (no boot time, no baseline, empty       *)
(* cache), and either the kernel log was never opened (no reader, no       *)
(* cache), or the reader was started and has been closed.  The detection   *)
(* loop runs only after the whole construction succeeded.                  *)
(***************************************************************************)
C16_FailurePropagation ==
    /\ mainPc = "exit1" =>
          /\ stPc = "off"
          /\ rfPc = "off"
          /\ cache = <<>>
          /\ bootTime = 0
          /\ startupTimestamp = 0
          /\ \/ rlPc = "off" /\ ~done
             \/ rlPc # "off" /\ done
    /\ stPc # "off" =>
          /\ rlPc # "off"
          /\ mainPc \notin {"new", "cache", "clock", "start", "exit1"}

\* The cache construction failed after the reader had been started: the
\* process has exited with status 1 and the reader is closed.
C16_Witness ==
    /\ mainPc = "exit1"
    /\ rlPc # "off"
    /\ done
    /\ stPc = "off"

(***************************************************************************)
(* C17  Only construction failures terminate the process abnormally.  As   *)
(* claimed: for every interval in Intervals, 0 included, the process never *)
(* crashes, and it exits with status 1 only when the detection loop was    *)
(* never started.  Violated: time.NewTicker panics on the interval 0 at    *)
(* the beginning of Start and of refreshProcessCache.                      *)
(***************************************************************************)
C17_NoAbnormalEndAfterConstruction ==
    /\ mainPc # "crashed"
    /\ mainPc = "exit1" => stPc = "off" /\ rfPc = "off"

\* What does hold: with both intervals positive the process neither crashes
\* nor exits with status 1 once Start has been called, whatever lines
\* arrive and although Refresh fails.
C17_PositiveIntervalsNeverFatal ==
    (checkInterval > 0 /\ refreshInterval > 0 /\ stPc # "off") =>
        mainPc \notin {"crashed", "exit1"}

\* The construction succeeded, the detection interval is 0 and the process
\* has crashed in Start.
C17_CrashedOnZeroInterval ==
    /\ mainPc = "crashed"
    /\ checkInterval = 0
    /\ stPc = "begin"
    /\ bootTime # 0

(***************************************************************************)
(* C18  Boot-time discovery failure is never fatal.  When the statistics   *)
(* file is unreadable, has no line starting with "btime ", or has a btime  *)
(* line whose value is missing or does not parse, the monitor that         *)
(* NewOOMMonitor returns has the current time as bootTime and the          *)
(* microseconds elapsed since then as startupTimestamp; and once the cache *)
(* is constructed the process never exits with status 1.                   *)
(***************************************************************************)
C18_FailingStats == {ReadErr, StatNoBtime, StatBadValue, StatNoValue}

C18_BootTimeFallback ==
    /\ (clk.stat \in C18_FailingStats /\ mainPc \notin {"new", "cache", "clock", "exit1"}) =>
          /\ bootTime = clk.now0
          /\ startupTimestamp = clk.now1 - clk.now0
    /\ cache # <<>> => mainPc # "exit1"

\* The btime value did not parse, and the monitor was returned and runs its
\* detection loop with the fallback baseline.
C18_Witness ==
    /\ clk.stat = StatBadValue
    /\ mainPc = "select"
    /\ stPc = "tick"
    /\ rfPc = "tick"
    /\ bootTime = 1000002
    /\ startupTimestamp = 1

(***************************************************************************)
(* C19  Refresh error contract.  A Refresh call returns an error exactly   *)
(* when procDir could not be listed, and that call leaves the cache and    *)
(* its recency order as they were.  A call that listed procDir takes for   *)
(* insertion exactly the PIDs that have a command line (a readable,        *)
(* non-blank cmdline, or a readable blank cmdline and a readable comm), in *)
(* directory order: a PID with both files unreadable is left out and the   *)
(* others are kept; each one taken is inserted at the front of the cache,  *)
(* and the call returns nil, and only once all are inserted.               *)
(***************************************************************************)
C19_HasCommandLine(f) ==
    /\ f.cmdline # ReadErr
    /\ \/ TrimSpace(ReplaceNul(f.cmdline)) # <<>>
       \/ f.comm # ReadErr

C19_Taken == {rfProcs[i].PID : i \in 1..Len(rfProcs)}

C19_Swept ==
    LET table == refreshCall.table IN
    /\ refreshCall.listed
    /\ refreshCall.result = "running"
    /\ C19_Taken = {pid \in DOMAIN table : C19_HasCommandLine(table[pid])}
    /\ \A pid \in DOMAIN table :
           table[pid] = File(ReadErr, ReadErr) => pid \notin C19_Taken
    /\ \A i, j \in 1..Len(rfProcs) :
           i < j => NameLess(Itoa(rfProcs[i].PID), Itoa(rfProcs[j].PID))

C19_Returns ==
    /\ refreshCall.result = "error" <=> (refreshCall.result # "none" /\ ~refreshCall.listed)
    /\ rfPc = "lock" => C19_Swept

C19_Step ==
    /\ (nRefresh' # nRefresh /\ refreshCall'.result = "error") =>
           cache' = cache /\ recency' = recency
    /\ (rfPc = "insert" /\ rfProcs' # rfProcs) =>
           /\ rfProcs' = Tail(rfProcs)
           /\ cache'[1] = [key |-> Head(rfProcs).PID, value |-> Head(rfProcs).Cmdline]
           /\ recency'[1] = Head(rfProcs).PID
    /\ (refreshCall.result = "running" /\ refreshCall'.result # "running") =>
           refreshCall'.result = "nil" /\ rfProcs = <<>>

C19_RefreshErrorContract == [](C19_Returns) /\ [][C19_Step]_vars

\* A sweep over a table where PID 1 has both files unreadable and PID 10,
\* listed before PID 2, and PID 2 have command lines: both are taken.
C19_Witness ==
    /\ rfPc = "lock"
    /\ refreshCall.result = "running"
    /\ DOMAIN refreshCall.table = {1, 2, 10}
    /\ refreshCall.table[1] = File(ReadErr, ReadErr)
    /\ Len(rfProcs) = 2
    /\ rfProcs[1].PID = 10
    /\ rfProcs[2].PID = 2

(***************************************************************************)
(* C20  Close does not skip in-flight work.  Every entry of the batch that *)
(* the detection loop had not finished with when OOMMonitor.Close was      *)
(* called is, once the loop is done with it, published if and only if it   *)
(* qualifies, with the PID of its kill; and the Close step itself changes  *)
(* nothing of the detection loop, of the refresh loop, of the cache or of  *)
(* the two queues: it only closes the reader.                              *)
(***************************************************************************)
C20_BatchFinished ==
    closeCall.called =>
        \A n \in closeCall.pending :
            n \notin Pending =>
                /\ Qualifies(n) <=> n \in Range(SentSeqs)
                /\ \A i \in 1..Len(sent) :
                       sent[i].seq = n =>
                           /\ i > closeCall.sent
                           /\ \E pid \in PIDs :
                                  KillOf(n, pid) /\ sent[i].ev.PID = DecimalText[pid]

C20_CloseStep ==
    (~done /\ done') =>
        /\ UNCHANGED <<stPc, entries, idx, event>>
        /\ UNCHANGED <<rfPc, rfProcs, cache, muHeld>>
        /\ UNCHANGED <<entryBuffer, eventChan, rlPc>>

C20_CloseKeepsInFlightWork == [](C20_BatchFinished) /\ [][C20_CloseStep]_vars

\* Close was called while a batch with a qualifying entry was in process,
\* and the event of that entry was sent afterwards, before main returned.
C20_Witness ==
    /\ mainPc = "closed"
    /\ closeCall.called
    /\ \E n \in closeCall.pending :
          /\ Qualifies(n)
          /\ n \notin Pending
          /\ \E i \in 1..Len(sent) : sent[i].seq = n /\ i > closeCall.sent

(***************************************************************************)
(* C21  Shutdown completes dequeued work.  As claimed: when the process    *)
(* has stopped after the shutdown signal, the detection loop has finished  *)
(* with every entry it had dequeued, and every event it published was      *)
(* received from eventChan and handed to Notify.  Violated: main returns   *)
(* as soon as it receives the signal, and the return ends the goroutine of *)
(* Start wherever it is and leaves eventChan as it is.                     *)
(***************************************************************************)
C21_DequeuedWorkCompleted ==
    mainPc = "exited" =>
        /\ Pending = {}
        /\ stPc = "drain" => entries = <<>>
        /\ eventChan = <<>>
        /\ Len(notified) = Len(sent)

\* The process has stopped with a published event still in eventChan and
\* a dequeued qualifying entry the loop had not come to.
C21_AbandonedAtShutdown ==
    /\ mainPc = "exited"
    /\ eventChan # <<>>
    /\ Len(notified) < Len(sent)
    /\ \E n \in Pending : Qualifies(n) /\ n \notin Range(SentSeqs)

(***************************************************************************)
(* C22  Capacity sized to pid_max.  getPIDMax is the value of the pid_max  *)
(* file, or 32768 when the file is unreadable or no number.  With the      *)
(* capacity of the cache equal to pid_max and every PID of the process     *)
(* table in 1..pid_max, no PID the cache has held is ever evicted: every   *)
(* such PID is in the cache with a non-empty command line, and a lookup of *)
(* it returns that command line.                                           *)
(***************************************************************************)
C22_PidMax ==
    /\ getPIDMax(PidMaxFile) = CacheCap
    /\ getPIDMax(ReadErr) = 32768
    /\ getPIDMax(<<"x", "LF">>) = 32768
    /\ getPIDMax(<<>>) = 32768

C22_NeverEvicted ==
    /\ C22_PidMax
    /\ Len(cache) <= CacheCap
    /\ \A p \in Range(recency) :
          /\ p \in SizedPIDs
          /\ LruContains(cache, p)
          /\ GetCommandLine(cache, p) # <<>>
    /\ ~lastLookup.evicted

C22_Step ==
    /\ \A p \in PIDs : LruContains(cache, p) => LruContains(cache', p)
    /\ (rfPc = "insert" /\ rfProcs' # rfProcs) => LruContains(cache', Head(rfProcs).PID)
    /\ (lookups' # lookups /\ lastLookup'.pid \in Range(recency)) =>
           lastLookup'.result # <<>>

C22_SizedToPidMax == [](C22_NeverEvicted) /\ [][C22_Step]_vars

\* Every PID of the host is in the full cache, a Refresh has inserted into
\* the full cache, and a lookup has then found the oldest entry.
C22_Witness ==
    /\ Len(cache) = CacheCap
    /\ Range(recency) = SizedPIDs
    /\ refreshCall.result = "nil"
    /\ nRefresh >= 2
    /\ lookups >= 1
    /\ lastLookup.pid \in SizedPIDs
    /\ lastLookup.result # <<>>

(***************************************************************************)
(* C23  Refresh-failure isolation.  A failing periodic Refresh leaves the  *)
(* refresh loop at its ticker, the cache as it was and the process         *)
(* running; the next tick calls Refresh again, and a later Refresh that    *)
(* succeeds inserts what it scanned.  Meanwhile the detection loop goes    *)
(* on: an event created after the failure takes its command line from the  *)
(* unchanged cache, and every entry in its batch is eventually published.  *)
(***************************************************************************)
C23_FailureStep ==
    /\ (nRefresh' # nRefresh /\ refreshCall'.result = "error") =>
           /\ rfPc' = "tick"
           /\ cache' = cache
           /\ UNCHANGED <<stPc, entries, idx, event, mainPc>>
    /\ (refreshCall.result = "error" /\ stPc = "process" /\ stPc' = "send") =>
           /\ event'.Cmdline = GetCommandLine(cache, 1)
           /\ event'.Cmdline # <<>>
    /\ (refreshCall.result = "error" /\ rfPc = "insert" /\ rfProcs' # rfProcs) =>
           GetCommandLine(cache', Head(rfProcs).PID) = Head(rfProcs).Cmdline

C23_AfterFailure ==
    /\ refreshCall.result = "error" => rfPc = "tick" /\ Alive
    /\ CreateReady => Publishes(entries[idx], startupTimestamp)

C23_RefreshFailureIsolation ==
    /\ [][C23_FailureStep]_vars
    /\ [](C23_AfterFailure)
    /\ \A k \in 1..(MaxIsolatedRefresh - 1) :
          (nRefresh = k /\ refreshCall.result = "error") ~> (nRefresh = k + 1)
    /\ \A n \in 1..MaxIsolatedLines :
          (refreshCall.result = "error" /\ n \in Pending) ~> (n \in Range(SentSeqs))

\* The first Refresh failed, a later one succeeded and put the new command
\* line of PID 1 in the cache; a kill of PID 1 was resolved from the cache
\* before that and another one after it.
C23_Witness ==
    /\ nRefresh = MaxIsolatedRefresh
    /\ refreshCall.result = "nil"
    /\ GetCommandLine(cache, 1) = <<"c">>
    /\ Len(sent) = 2
    /\ sent[1].ev.Cmdline = <<"a", " ", "b">>
    /\ sent[2].ev.Cmdline = <<"c">>

(***************************************************************************)
(* C24  PID-extraction failure is skipped, not fatal.  An OOM line at the  *)
(* baseline that names no killed process, or whose PID does not fit the    *)
(* int type, is never published; ExtractPID fails on it and returns no     *)
(* clamped value; the step that skips it moves the loop to the next entry  *)
(* of the batch, the process stays alive, and every kill line the loop is  *)
(* done with is published.                                                 *)
(***************************************************************************)
C24_NoPid(n) ==
    scanned[n] \in {KernelLine(3, n, 2, OomNoPidMsg), KernelLine(3, n, 2, OomHugePidMsg)}

C24_Skipped ==
    /\ ExtractPID(OomNoPidMsg) = ParseErr
    /\ ExtractPID(OomHugePidMsg) = ParseErr
    /\ Alive
    /\ \A n \in 1..Len(scanned) :
          /\ C24_NoPid(n) => n \notin Range(SentSeqs)
          /\ (n \in Processed /\ Qualifies(n)) => n \in Range(SentSeqs)

C24_SkipStep ==
    (stPc = "process" /\ idx <= Len(entries) /\ idx' # idx
        /\ C24_NoPid(entries[idx].SequenceNum)) =>
            /\ idx' = idx + 1
            /\ stPc' = "process"
            /\ UNCHANGED <<entries, sent, eventChan, mainPc>>

C24_ExtractionFailureSkipped == [](C24_Skipped) /\ [][C24_SkipStep]_vars

\* One batch held a line whose PID does not fit and then a kill of PID 1:
\* the first was skipped and the second published.
C24_Witness ==
    /\ Len(call.result) = 2
    /\ scanned[1] = KernelLine(3, 1, 2, OomHugePidMsg)
    /\ Qualifies(2)
    /\ SentSeqs = <<2>>
    /\ Pending = {}

(***************************************************************************)
(* C25  The only timestamp filter is the startup baseline.  Every record   *)
(* the reader has parsed is enqueued or about to be, whatever its          *)
(* timestamp; and a kill whose timestamp is at or after the baseline is    *)
(* published once the loop is done with it, also when an earlier record    *)
(* carried the same or a higher timestamp.                                 *)
(***************************************************************************)
C25_StampedAt(n, ts) ==
    \E prio \in {3, 6}, msg \in {NotOomMsg, OomNoPidMsg} \cup {OomKillMsg(p) : p \in PIDs} :
        scanned[n] = KernelLine(prio, n, ts, msg)

C25_KillStampedAt(n, ts) ==
    \E p \in PIDs : scanned[n] = KernelLine(3, n, ts, OomKillMsg(p))

C25_BaselineIsOnlyFilter ==
    /\ \A n \in 1..Len(scanned) :
          (\E ts \in Timestamps : C25_StampedAt(n, ts)) =>
              \/ n \in Range(enqueued)
              \/ rlPc = "push" /\ rlEntry.SequenceNum = n
    /\ \A n \in Processed : \A tn \in Timestamps :
          C25_KillStampedAt(n, tn) =>
              \A m \in 1..(n - 1) : \A tm \in Timestamps :
                  (tn <= tm /\ C25_StampedAt(m, tm)) =>
                      (n \in Range(SentSeqs) <=> tn >= startupTimestamp)

\* With the baseline 2, a kill stamped 3 was followed by a kill stamped 2,
\* and both were published.
C25_Witness ==
    /\ startupTimestamp = 2
    /\ Len(scanned) = 2
    /\ C25_KillStampedAt(1, 3)
    /\ C25_KillStampedAt(2, 2)
    /\ SentSeqs = <<1, 2>>

(***************************************************************************)
(* C26  Last-writer-wins per PID.  What a Refresh takes for insertion is,  *)
(* for each PID, the command line its scan read for that PID; inserting a  *)
(* PID makes the cache hold exactly that command line for it and leaves    *)
(* the stored value of every other PID still in the cache as it was; no    *)
(* other step changes a stored value; and GetCommandLine returns the       *)
(* stored value.  So a PID in the cache resolves to the command line of    *)
(* the latest Refresh that scanned it.                                     *)
(***************************************************************************)
C26_Scanned ==
    rfPc = "lock" =>
        \A i \in 1..Len(rfProcs) :
            rfProcs[i].Cmdline = getProcessCmdline(refreshCall.table[rfProcs[i].PID])

C26_Step ==
    /\ (rfPc = "insert" /\ rfProcs' # rfProcs) =>
           /\ GetCommandLine(cache', Head(rfProcs).PID) = Head(rfProcs).Cmdline
           /\ \A q \in PIDs \ {Head(rfProcs).PID} :
                  LruContains(cache', q) =>
                      GetCommandLine(cache', q) = GetCommandLine(cache, q)
    /\ ~(rfPc = "insert" /\ rfProcs' # rfProcs) =>
           \A q \in PIDs :
               LruContains(cache', q) =>
                   GetCommandLine(cache', q) = GetCommandLine(cache, q)
    /\ lookups' # lookups =>
           lastLookup'.result = GetCommandLine(cache', lastLookup'.pid)

C26_LastWriterWins == [](C26_Scanned) /\ [][C26_Step]_vars

\* PID 1 was looked up when the cache held "a b" for it; a later Refresh
\* found PID 1 reused, and the cache holds "[k]" for it.
C26_Witness ==
    /\ lookups = 1
    /\ lastLookup.pid = 1
    /\ lastLookup.result = <<"a", " ", "b">>
    /\ refreshCall.result = "nil"
    /\ GetCommandLine(cache, 1) = <<"[", "k", "]">>

(***************************************************************************)
(* C27  Refresh insertion is atomic with respect to lookups.  The lock is  *)
(* held exactly during the insertion phase of a Refresh; no GetCommandLine *)
(* call is made while it is held, so none falls between two insertions of  *)
(* one Refresh; the scan of the process table runs without the lock, and   *)
(* it neither takes nor releases it.                                       *)
(***************************************************************************)
C27_LockHeld ==
    /\ muHeld <=> rfPc = "insert"
    /\ rfPc = "scan" => ~muHeld

C27_Step ==
    /\ lookups' # lookups => (~muHeld /\ rfPc # "insert" /\ UNCHANGED <<rfPc, rfProcs, muHeld>>)
    /\ (rfPc = "insert" /\ rfPc' = "insert") =>
           (muHeld /\ muHeld' /\ lookups' = lookups /\ rfProcs' = Tail(rfProcs))
    /\ (rfPc \in {"tick", "scan"} /\ rfPc' # "insert") => (~muHeld /\ ~muHeld')

C27_AtomicInsertion == [](C27_LockHeld) /\ [][C27_Step]_vars

\* A lookup was made while the first Refresh was scanning the process
\* table.
C27_Witness ==
    /\ rfPc = "scan"
    /\ nRefresh = 1
    /\ lookups = 1
    /\ lastLookup.result # <<>>

(***************************************************************************)
(* C28  Stop after Close.  After Close the reader enqueues at most one     *)
(* entry more and, as long as the process lives, its task terminates; a    *)
(* task that waited to push when Close was called is released; and every   *)
(* entry that was in the queue at Close stays in the queue until a         *)
(* ReadEntries call takes it.                                              *)
(***************************************************************************)
C28_AfterClose ==
    /\ rlPc = "stopped" => done
    /\ closeCall.called =>
          /\ done
          /\ Len(enqueued) <= closeCall.enqueued + 1
          /\ \A i \in 1..Len(closeCall.queue) :
                 \/ closeCall.queue[i] \in Range(SeqNums(entryBuffer))
                 \/ closeCall.queue[i] \in Range(InCall)
                 \/ closeCall.queue[i] \in Range(drained)

C28_Step ==
    /\ rlPc = "stopped" => rlPc' = "stopped" /\ enqueued' = enqueued
    /\ (done /\ rlPc = "select") => rlPc' \in {"select", "stopped"}

C28_StopAfterClose ==
    /\ [](C28_AfterClose)
    /\ [][C28_Step]_vars
    /\ done ~> (rlPc = "stopped" \/ ~Alive)

\* Close was called while the task waited to push into the full queue: the
\* task has stopped without enqueuing, and a later ReadEntries call has
\* returned the entries that were in the queue.
C28_Witness ==
    /\ closeCall.called
    /\ closeCall.rlPc = "push"
    /\ Len(closeCall.queue) = QueueCap
    /\ rlPc = "stopped"
    /\ Len(enqueued) = closeCall.enqueued
    /\ Alive
    /\ \A i \in 1..Len(closeCall.queue) : closeCall.queue[i] \in Range(drained)

(***************************************************************************)
(* C29  Ingestion stays live and does not spin.  While the reader is open  *)
(* the task waits only in the stream read or in the queue push, and a      *)
(* line the stream makes available is taken and enqueued, also after a     *)
(* read has failed or returned no line.  The code does not do this: once   *)
(* Scan has returned false, every later Scan returns false at once, so     *)
(* readLoop goes round its loop without waiting and takes no line again.   *)
(***************************************************************************)
\* The open reader, about to read while the stream has a further line, can
\* take that line.
C29_LineStillTaken ==
    (Alive /\ ~done /\ rlPc = "scan" /\ Len(scanned) < MaxClosedLines) => ~scanEnded

\* A Scan that follows a failed one does not return at once.
C29_NoSpinStep ==
    (Alive /\ ~done /\ rlPc = "scan" /\ scanEnded) => rlPc' = "scan"

C29_IngestionLive ==
    /\ [](C29_LineStillTaken)
    /\ [][C29_NoSpinStep]_vars

\* A read has failed on the open reader; the stream has a further line and
\* every line read before is enqueued, yet readLoop is back at Scan, which
\* will return false again.
C29_SpinningAfterFailedRead ==
    /\ Alive
    /\ ~done
    /\ scanEnded
    /\ rlPc = "scan"
    /\ Len(scanned) < MaxClosedLines
    /\ Len(scanned) >= 1
    /\ Len(enqueued) = Len(scanned)

(***************************************************************************)
(* C30  Notification loop.  Without a shutdown signal, every event put on  *)
(* the output channel is eventually passed to Notify, exactly once, one    *)
(* at a time and in channel order, with its five fields copied unchanged;  *)
(* a Notify failure is logged, is not retried, and later events are        *)
(* notified all the same.                                                  *)
(***************************************************************************)
\* The Notify calls made so far are, in order, the first events sent, one
\* call and one log line for each, field for field; main holds at most one
\* event, the next in channel order.
C30_InOrderOnce ==
    /\ Len(notified) <= Len(sent)
    /\ Len(notifyLog) = Len(notified)
    /\ \A i \in 1..Len(notified) :
          /\ notified[i].Cmdline = sent[i].ev.Cmdline
          /\ notified[i].PID = sent[i].ev.PID
          /\ notified[i].Hostname = sent[i].ev.Hostname
          /\ notified[i].Kernel = sent[i].ev.Kernel
          /\ notified[i].Time = sent[i].ev.Time
    /\ Len(sent) = Len(notified) + Len(InNotify) + Len(eventChan)
    /\ mainPc = "notify" => mainEvent = sent[Len(notified) + 1].ev

\* A Notify call takes one event and adds one log line, also when it fails;
\* after it main selects again.
C30_Step ==
    notified' # notified =>
        /\ mainPc = "notify"
        /\ mainPc' = "select"
        /\ Len(notified') = Len(notified) + 1
        /\ Len(notifyLog') = Len(notifyLog) + 1
        /\ eventChan' = eventChan

C30_NotificationLoop ==
    /\ [](C30_InOrderOnce)
    /\ [][C30_Step]_vars
    /\ \A i \in 1..MaxNotifiedLines : (Len(sent) >= i) ~> (Len(notified) >= i)

\* A Notify call failed and the event sent after it has been notified.
C30_Witness ==
    /\ Len(notified) = MaxNotifiedLines
    /\ notifyLog[1] = "error"
    /\ notified[1].PID # notified[2].PID
    /\ notified[2] = sent[2].ev

(***************************************************************************)
(* C31  Every ReadEntries call terminates while the reader keeps pushing:  *)
(* it returns the first time it finds the queue empty, one call may        *)
(* return more entries than the queue holds, and under fair scheduling of  *)
(* readLoop and Start on a stream that keeps delivering lines the call     *)
(* still returns in the end.  The code does not ensure the last: the call  *)
(* returns only when it finds the queue empty, and a readLoop that pushes  *)
(* between any two receives keeps it collecting for ever.                  *)
(***************************************************************************)
\* With the queue empty the call can only return; a call that has returned
\* left the queue empty.
C31_ReturnsOnEmpty ==
    /\ (Alive /\ stPc = "drain" /\ entryBuffer = <<>>) => ENABLED EndlessReturn /\ ~ENABLED EndlessRecv
    /\ (Alive /\ stPc = "drain" /\ entryBuffer # <<>>) => ~ENABLED EndlessReturn
    /\ call.returned => call.left = <<>>

C31_ReadEntriesTerminates ==
    /\ [](C31_ReturnsOnEmpty)
    /\ (stPc = "drain") ~> (stPc # "drain")

\* A call in progress has collected more entries than the queue holds and
\* the queue has an entry again.
C31_StillDraining ==
    /\ Alive
    /\ stPc = "drain"
    /\ ~call.returned
    /\ call.pushed
    /\ Len(entries) > QueueCap
    /\ entryBuffer # <<>>

(***************************************************************************)
(* C32  The cache never stores an empty command line.  Refresh inserts a   *)
(* PID only with a non-empty command line, the arguments or the bracketed  *)
(* short name; so GetCommandLine(p) is empty exactly when p is not in the  *)
(* cache, and createOOMEvent uses the placeholder exactly for a PID that   *)
(* is not in the cache.                                                    *)
(***************************************************************************)
C32_NoEmptyValue ==
    /\ \A i \in 1..Len(cache) : cache[i].value # <<>>
    /\ \A i \in 1..Len(rfProcs) : rfProcs[i].Cmdline # <<>>
    /\ \A p \in StoredPIDs : (GetCommandLine(cache, p) = <<>>) <=> ~LruContains(cache, p)
    /\ refreshCall.table # <<>> =>
          \A p \in DOMAIN refreshCall.table :
              (\E i \in 1..Len(rfProcs) : rfProcs[i].PID = p)
                  <=> getProcessCmdline(refreshCall.table[p]) # <<>>

\* createOOMEvent: the placeholder is used exactly for a PID that is not
\* in the cache; otherwise the event carries the cached command line.
C32_CreateStep ==
    (stPc = "process" /\ stPc' = "send") =>
        \A p \in StoredPIDs :
            KillOf(entries[idx].SequenceNum, p) =>
                /\ (event'.Cmdline = UnknownProcess(p)) <=> ~LruContains(cache, p)
                /\ LruContains(cache, p) => event'.Cmdline = GetCommandLine(cache, p)

C32_NeverStoresEmpty ==
    /\ [](C32_NoEmptyValue)
    /\ [][C32_CreateStep]_vars

\* The cache holds a PID under the bracketed name of a blank comm, a PID
\* whose directory gave no command line was left out of a scan, and the
\* event of a kill of an absent PID carries the placeholder.
C32_Witness ==
    /\ \E i \in 1..Len(cache) : cache[i].value = <<"[", "]">>
    /\ refreshCall.table # <<>>
    /\ \E p \in DOMAIN refreshCall.table :
          /\ refreshCall.table[p] = File(ReadErr, <<"k","LF">>)
          /\ \A i \in 1..Len(rfProcs) : rfProcs[i].PID # p
    /\ \E i \in 1..Len(sent) : \E p \in StoredPIDs :
          KillOf(sent[i].seq, p) /\ sent[i].ev.Cmdline = UnknownProcess(p)

(***************************************************************************)
(* C33  startupTimestamp is the true elapsed time since boot for every     *)
(* input: it equals now - T0 in microseconds and never wraps; when T0 is   *)
(* later than now it is not a value near 2^64, and with the fallback       *)
(* T0 = now it is 0.  The code does not do this: the signed difference is  *)
(* converted to uint64 as it is, so a T0 later than now gives a value near *)
(* 2^64, and the fallback gives the time that passed between its           *)
(* time.Now() and the evaluation of time.Since.                            *)
(***************************************************************************)
C33_Elapsed == startupTimestamp = clk.now1 - bootTime

C33_NotWrapped == startupTimestamp < Uint64Wrap \div 2

C33_ZeroOnFallback == ~getBootTime(clk.stat).ok => startupTimestamp = 0

C33_TrueElapsed ==
    /\ C33_Elapsed
    /\ C33_NotWrapped
    /\ C33_ZeroOnFallback

\* The boot time read is later than the clock: the baseline has wrapped,
\* and an OOM kill that Start has finished with was filtered as older than
\* the baseline.
C33_KillFilteredByWrap ==
    /\ bootTime > clk.now1
    /\ startupTimestamp = Uint64Wrap - (bootTime - clk.now1)
    /\ \E n \in Processed : \E ts \in Timestamps :
          /\ scanned[n] = KernelLine(3, n, ts, OomKillMsg(1))
          /\ n \notin Range(SentSeqs)
=============================================================================
